---- MODULE Spec2Model ----
(***************************************************************************)
(* Elementary cellular automaton explorer (src/code/automata/src/main.rs). *)
(*                                                                         *)
(* The specifications share the automaton:                                 *)
(*   Spec            an Automaton built by Automaton::new or               *)
(*                   Automaton::from_cells and advanced by                 *)
(*                   Automaton::step;                                      *)
(*   SpecCycle       find_cycle(rule, width, max_steps), one loop          *)
(*                   iteration per action;                                 *)
(*   SpecInfer       the training pass and majority vote of --infer;       *)
(*   SpecRadius      the sampling and the radius scan of --radius, and of  *)
(*                   one rule of --radius-survey;                          *)
(*   SpecDependency  --dependency;                                         *)
(*   SpecDependencyInfer  --dependency-infer;                              *)
(*   SpecCompress    compression_ratio(rule, width, generations);          *)
(*   SpecEntropy     Automaton::block_entropy(k);                          *)
(*   SpecSurvey      --radius-survey over all 256 rules;                   *)
(*   SpecAnalyze     --analyze over all 256 rules.                         *)
(* Cells are indexed 0..n-1 as in the source.                              *)
(***************************************************************************)
EXTENDS Integers, Sequences, FiniteSets, TLC

VARIABLES
    cells,      \* Automaton.cells: [0..n-1 -> BOOLEAN]
    rule,       \* Automaton.rule: u8
    start,      \* the cells the automaton was constructed with
    gen,        \* number of Automaton::step calls made on the automaton
    pc,         \* find_cycle: "loop" | "done"; "idle" outside find_cycle
    max_steps,  \* find_cycle: argument max_steps
    step,       \* find_cycle: loop variable of `for step in 0..max_steps`
    seen,       \* find_cycle: HashSet<Vec<bool>>
    history,    \* find_cycle: Vec<Vec<bool>>
    result,     \* find_cycle: the returned CycleAnalysis (NoResult before return)
    grid_width,     \* main: argument width of --infer, --radius, --radius-survey
    generations,    \* main: argument generations of the same modes
    trial,          \* main: loop variable of `for trial in 0..num_trials`
    out,            \* main: the report lines printed so far
    noise,          \* --infer: argument noise, in thousandths
    observations,   \* --infer: observations: [usize; 8]
    outcomes,       \* --infer: outcomes: [usize; 8]
    inferred_rule,  \* --infer: inferred_rule: u8
    mode,           \* "radius" | "survey": which of the two radius scans runs
    max_radius,     \* --radius: argument max_radius; 2 in --radius-survey
    transitions,    \* --radius: transitions: Vec<(Vec<bool>, Vec<bool>)>
    radius,         \* --radius: loop variable of `for r in 0..=max_radius`
    effective_radius,   \* --radius-survey: effective_radius
    dep_counts,     \* --dependency: dep_counts, (l, c, r) -> Vec<u8>
    counts,         \* --dependency-infer: counts, (l, c, r) -> (zeros, ones);
                    \* block_entropy: counts, vec![0usize; 1 << k]
    left_matters,   \* --dependency-infer: left_matters
    center_matters, \* --dependency-infer: center_matters
    right_matters,  \* --dependency-infer: right_matters
    match_result,   \* --dependency-infer: match_result
    raw_bytes,      \* compression_ratio: raw_bytes: Vec<u8>
    current_byte,   \* compression_ratio: current_byte: u8
    bit_pos,        \* compression_ratio: bit_pos
    compressed,     \* compression_ratio: compressed, of which only the length
                    \* is kept
    raw_bits,       \* compression_ratio: raw_bits
    compressed_bits,    \* compression_ratio: compressed_bits
    block_k,        \* block_entropy: argument k
    block_i,        \* block_entropy: loop variable of `for i in 0..n`
    entropy,        \* block_entropy: entropy, kept as <<a, b>> with
                    \* 2^(width * entropy) = a / b
    radius_counts,  \* --radius-survey: radius_counts: [usize; 3]
    radius_0_rules, \* --radius-survey: radius_0_rules: Vec<u8>
    radius_gt1_rules,   \* --radius-survey: radius_gt1_rules: Vec<u8>
    class_counts    \* --analyze: class_counts: [usize; 4]

cycleData == <<max_steps, step, seen, history, result>>

cycleVars == <<pc, max_steps, step, seen, history, result>>

inferVars == <<noise, observations, outcomes, inferred_rule>>

radiusVars == <<mode, max_radius, transitions, radius, effective_radius>>

dependencyInferVars ==
    <<counts, left_matters, center_matters, right_matters, match_result>>

compressVars ==
    <<raw_bytes, current_byte, bit_pos, compressed, raw_bits, compressed_bits>>

entropyVars == <<block_k, block_i, entropy>>

surveyVars == <<radius_counts, radius_0_rules, radius_gt1_rules>>

analysisVars ==
    <<dependencyInferVars, compressVars, entropyVars, surveyVars, class_counts>>

modeVars ==
    <<grid_width, generations, trial, out, noise, observations, outcomes,
      inferred_rule, mode, max_radius, transitions, radius, effective_radius,
      dep_counts, analysisVars>>

vars ==
    <<cells, rule, start, gen, pc, max_steps, step, seen, history, result,
      grid_width, generations, trial, out, noise, observations, outcomes,
      inferred_rule, mode, max_radius, transitions, radius, effective_radius,
      dep_counts, counts, left_matters, center_matters, right_matters,
      match_result, raw_bytes, current_byte, bit_pos, compressed, raw_bits,
      compressed_bits, block_k, block_i, entropy, radius_counts, radius_0_rules,
      radius_gt1_rules, class_counts>>

----------------------------------------------------------------------------
(* Bounds of the model *)

\* largest width given to Automaton::new in Spec
MaxWidth == 7
\* largest length of the vector given to Automaton::from_cells in Spec
MaxCells == 5
\* largest number of Automaton::step calls in Spec
MaxGen == 4
\* largest width given to find_cycle in SpecCycle
MaxCycleWidth == 4

\* largest width given to --infer, --radius and --radius-survey
MaxSampleWidth == 4
\* largest generations given to --infer, --radius and --radius-survey
MaxSampleGens == 2
\* largest max_radius given to --radius
MaxRadius == 2
\* largest width given to compression_ratio
MaxPackWidth == 5
\* largest generations given to compression_ratio
MaxPackGens == 3
\* largest width given to --radius-survey in SpecSurvey
MaxSurveyWidth == 5
\* largest generations given to --radius-survey in SpecSurvey
MaxSurveyGens == 2
\* largest width given to --analyze
MaxAnalyzeWidth == 6
\* largest max_steps given to --analyze
MaxAnalyzeSteps == 12
\* largest width of the automaton block_entropy is called on
MaxEntropyWidth == 4

\* rule: u8
Rules == 0..255

\* the noise arguments given to --infer, in thousandths: 0.0 and 0.5
NoiseLevels == {0, 500}

\* largest max_steps given to find_cycle: the pigeonhole budget 2^n + 1 of
\* the widest ring
MaxSteps == 2^MaxCycleWidth + 1

----------------------------------------------------------------------------
(* Automaton *)

\* cells.len()
Width(c) == Cardinality(DOMAIN c)

\* `b as u8`
AsU8(b) == IF b THEN 1 ELSE 0

\* vec![false; n]
AllFalse(n) == [i \in 0..(n - 1) |-> FALSE]

\* Automaton::new: a single live cell at index width / 2 (width >= 1; the
\* index expression panics on an empty vector)
New(width) == [AllFalse(width) EXCEPT ![width \div 2] = TRUE]

\* faulty variant of NeighborhoodIndex: the center cell takes the high bit
NeighborhoodIndex_CenterHigh(left, center, right) ==
    AsU8(center) * 4 + AsU8(left) * 2 + AsU8(right)

\* (left as u8) << 2 | (center as u8) << 1 | (right as u8): the three shifted
\* operands occupy distinct bits, so the bitwise or is their sum
NeighborhoodIndex(left, center, right) ==
    AsU8(left) * 4 + AsU8(center) * 2 + AsU8(right)

\* (self.rule >> index) & 1 == 1
RuleLookup(r, index) == ((r \div (2^index)) % 2) = 1

\* faulty variant of StepCells: the left neighbour of cell 0 and the right neighbour
\* of cell n-1 are read as dead instead of wrapping
StepCells_NoWrap(c, r) ==
    LET n == Width(c)
    IN  [i \in 0..(n - 1) |->
            LET left   == IF i = 0 THEN FALSE ELSE c[i - 1]
                center == c[i]
                right  == IF i = n - 1 THEN FALSE ELSE c[i + 1]
            IN  RuleLookup(r, NeighborhoodIndex(left, center, right))]

\* faulty variant of StepCells: `next` is one cell short
StepCells_Short(c, r) ==
    LET n == Width(c)
    IN  [i \in 0..(n - 2) |->
            RuleLookup(r, NeighborhoodIndex(c[(i + n - 1) % n], c[i], c[(i + 1) % n]))]

\* faulty variant of StepCells: `next` starts as a copy of the current cells and is
\* only ever set, so a live cell is never cleared
StepCells_KeepLive(c, r) ==
    LET n == Width(c)
    IN  [i \in 0..(n - 1) |->
            c[i] \/ RuleLookup(r, NeighborhoodIndex(c[(i + n - 1) % n], c[i], c[(i + 1) % n]))]

\* Automaton::step: every cell of `next` is computed from the cells before
\* the call, then `next` replaces them
StepCells(c, r) ==
    LET n == Width(c)
    IN  [i \in 0..(n - 1) |->
            LET left   == c[(i + n - 1) % n]
                center == c[i]
                right  == c[(i + 1) % n]
            IN  RuleLookup(r, NeighborhoodIndex(left, center, right))]

\* Automaton::population
Population(c) == Cardinality({i \in DOMAIN c : c[i]})

\* faulty variant of Display: a dead cell is written as '.'
Display_Dots(c) ==
    LET F[i \in 0..Width(c)] ==
            IF i = 0 THEN "" ELSE F[i - 1] \o (IF c[i - 1] THEN "#" ELSE ".")
    IN  F[Width(c)]

\* impl Display for Automaton: one glyph per cell, in index order
Display(c) ==
    LET F[i \in 0..Width(c)] ==
            IF i = 0 THEN "" ELSE F[i - 1] \o (IF c[i - 1] THEN "#" ELSE " ")
    IN  F[Width(c)]

----------------------------------------------------------------------------
(* Spec: an automaton is constructed and stepped *)

NoResult == [none |-> TRUE]

\* find_cycle is not running: its locals hold nothing
CycleUnused ==
    /\ max_steps = 0
    /\ step = 0
    /\ seen = {}
    /\ history = <<>>
    /\ result = NoResult

CycleIdle ==
    /\ pc = "idle"
    /\ CycleUnused

\* [0; 8]
ZeroCounts == [c \in 0..7 |-> 0]

\* --infer is not running
InferUnused ==
    /\ noise = 0
    /\ observations = ZeroCounts
    /\ outcomes = ZeroCounts
    /\ inferred_rule = 0

\* neither radius scan is running
RadiusUnused ==
    /\ mode = "none"
    /\ max_radius = 0
    /\ transitions = <<>>
    /\ radius = 0
    /\ effective_radius = 0

\* --dependency is not running
DependencyUnused == dep_counts = <<>>

\* --dependency-infer is not running
DependencyInferUnused ==
    /\ left_matters = FALSE
    /\ center_matters = FALSE
    /\ right_matters = FALSE
    /\ match_result = FALSE

\* compression_ratio is not running
CompressUnused ==
    /\ raw_bytes = <<>>
    /\ current_byte = 0
    /\ bit_pos = 0
    /\ compressed = 0
    /\ raw_bits = 0
    /\ compressed_bits = 0

\* block_entropy is not running
EntropyUnused ==
    /\ block_k = 0
    /\ block_i = 0
    /\ entropy = <<1, 1>>

\* the tallies of --radius-survey are not in use
SurveyUnused ==
    /\ radius_counts = [c \in 0..2 |-> 0]
    /\ radius_0_rules = <<>>
    /\ radius_gt1_rules = <<>>

\* --analyze is not running
AnalyzeUnused == class_counts = [c \in 0..3 |-> 0]

\* none of --dependency-infer, compression_ratio, block_entropy, the survey
\* tallies and --analyze is in use
AnalysesIdle ==
    /\ counts = <<>>
    /\ DependencyInferUnused
    /\ CompressUnused
    /\ EntropyUnused
    /\ SurveyUnused
    /\ AnalyzeUnused

\* no mode of main is running
ModesIdle ==
    /\ grid_width = 0
    /\ generations = 0
    /\ trial = 0
    /\ out = <<>>
    /\ InferUnused
    /\ RadiusUnused
    /\ DependencyUnused
    /\ AnalysesIdle

\* Automaton::new(width, rule)
InitNew ==
    \E w \in 1..MaxWidth :
        /\ cells = New(w)
        /\ start = New(w)

\* Automaton::from_cells(cells, rule)
InitFromCells ==
    \E n \in 0..MaxCells : \E c \in [0..(n - 1) -> BOOLEAN] :
        /\ cells = c
        /\ start = c

Init ==
    /\ rule \in Rules
    /\ InitNew \/ InitFromCells
    /\ gen = 0
    /\ CycleIdle
    /\ ModesIdle

\* ca.step()
Step ==
    /\ gen < MaxGen
    /\ cells' = StepCells(cells, rule)
    /\ gen' = gen + 1
    /\ UNCHANGED <<rule, start>>
    /\ UNCHANGED cycleVars
    /\ UNCHANGED modeVars

Next == Step

Spec == Init /\ [][Next]_vars

----------------------------------------------------------------------------
(* find_cycle *)

\* Automaton::density: population / width, kept as the exact fraction
Density(c) == [num |-> Population(c), den |-> Width(c)]

\* the literal 0.0
ZeroDensity == [num |-> 0, den |-> 1]

\* history.iter().position(|s| s == &ca.cells).unwrap(): the 0-based index of
\* the first entry equal to c
Position(h, c) ==
    CHOOSE j \in 0..(Len(h) - 1) :
        /\ h[j + 1] = c
        /\ \A i \in 0..(j - 1) : h[i + 1] # c

\* faulty variant of SeenInsert: the new state is not remembered
SeenInsert_Drop(s, c) == s

\* seen.insert(ca.cells.clone())
SeenInsert(s, c) == s \cup {c}

\* faulty variant of LoopContinues: `for step in 0..=max_steps`
LoopContinues_Inclusive(k, max) == k <= max

\* for step in 0..max_steps: the body runs for step = 0 .. max_steps - 1
LoopContinues(k, max) == k < max

\* faulty variant of DiedResult: transient is the step index, not step + 1
DiedResult_OffByOne(k) ==
    [transient |-> k, period |-> 1, died |-> TRUE, final_density |-> ZeroDensity]

\* the CycleAnalysis returned when the new state is all-dead
DiedResult(k) ==
    [transient |-> k + 1, period |-> 1, died |-> TRUE, final_density |-> ZeroDensity]

\* faulty variant of RepeatResult: period is step - cycle_start
RepeatResult_OffByOne(k, cycle_start, c) ==
    [transient |-> cycle_start, period |-> k - cycle_start, died |-> FALSE,
     final_density |-> Density(c)]

\* the CycleAnalysis returned when the new state was seen before
RepeatResult(k, cycle_start, c) ==
    [transient |-> cycle_start, period |-> k + 1 - cycle_start, died |-> FALSE,
     final_density |-> Density(c)]

\* the CycleAnalysis returned when the loop ends without a return
UnresolvedResult(max, c) ==
    [transient |-> max, period |-> 0, died |-> FALSE, final_density |-> Density(c)]

\* find_cycle up to the loop: ca = Automaton::new(width, rule), and the start
\* state is inserted in seen and pushed on history
InitCycle ==
    /\ rule \in Rules
    /\ \E w \in 1..MaxCycleWidth :
        /\ cells = New(w)
        /\ start = New(w)
    /\ gen = 0
    /\ max_steps \in 0..MaxSteps
    /\ step = 0
    /\ seen = SeenInsert({}, cells)
    /\ history = <<cells>>
    /\ pc = "loop"
    /\ result = NoResult
    /\ ModesIdle

\* one iteration: ca.step(); the new state is all-dead
IterDied ==
    /\ pc = "loop"
    /\ LoopContinues(step, max_steps)
    /\ LET next == StepCells(cells, rule)
       IN  /\ Population(next) = 0
           /\ cells' = next
           /\ gen' = gen + 1
           /\ result' = DiedResult(step)
           /\ pc' = "done"
    /\ UNCHANGED <<rule, start, max_steps, step, seen, history>>
    /\ UNCHANGED modeVars

\* one iteration: ca.step(); the new state is not all-dead and is in seen
IterRepeat ==
    /\ pc = "loop"
    /\ LoopContinues(step, max_steps)
    /\ LET next == StepCells(cells, rule)
       IN  /\ Population(next) # 0
           /\ next \in seen
           /\ cells' = next
           /\ gen' = gen + 1
           /\ result' = RepeatResult(step, Position(history, next), next)
           /\ pc' = "done"
    /\ UNCHANGED <<rule, start, max_steps, step, seen, history>>
    /\ UNCHANGED modeVars

\* one iteration: ca.step(); the new state is recorded and the loop goes on
IterRecord ==
    /\ pc = "loop"
    /\ LoopContinues(step, max_steps)
    /\ LET next == StepCells(cells, rule)
       IN  /\ Population(next) # 0
           /\ next \notin seen
           /\ cells' = next
           /\ gen' = gen + 1
           /\ seen' = SeenInsert(seen, next)
           /\ history' = Append(history, next)
           /\ step' = step + 1
    /\ UNCHANGED <<rule, start, max_steps, pc, result>>
    /\ UNCHANGED modeVars

\* the loop ran max_steps times without returning
Exhausted ==
    /\ pc = "loop"
    /\ ~LoopContinues(step, max_steps)
    /\ result' = UnresolvedResult(max_steps, cells)
    /\ pc' = "done"
    /\ UNCHANGED <<cells, rule, start, gen, max_steps, step, seen, history>>
    /\ UNCHANGED modeVars

NextCycle == IterDied \/ IterRepeat \/ IterRecord \/ Exhausted

SpecCycle == InitCycle /\ [][NextCycle]_vars

----------------------------------------------------------------------------
(* main, --infer: training pass and majority vote *)

\* let seed: usize = trial * 12345 + 67890
Seed(t) == t * 12345 + 67890

\* (0..width).map(|i| ((seed.wrapping_mul(i + 1)) % 100) < 50): the product
\* stays far below 2^64, so wrapping_mul is the plain product
InitialCells(seed, w) == [i \in 0..(w - 1) |-> ((seed * (i + 1)) % 100) < 50]

\* let num_trials = 10 of --infer and --radius
NumTrials == 10

\* faulty variant of NoiseFlips: the running count of the neighbourhood is
\* left out
NoiseFlips_NoCount(seed, i, count, level) ==
    /\ level > 0
    /\ ((seed + i) % 1000) < level

\* noise > 0.0 and ((seed + i + observations[neighborhood]) % 1000) as f64 /
\* 1000.0 < noise, the noise being level / 1000
NoiseFlips(seed, i, count, level) ==
    /\ level > 0
    /\ ((seed + i + count) % 1000) < level

\* `for i in 0..n` of the training loop, from cell i on: each cell counts its
\* neighbourhood in obs and, when its possibly flipped outcome is 1, in ones
RECURSIVE ObserveFrom(_, _, _, _, _, _, _)
ObserveFrom(i, old, new, seed, level, obs, ones) ==
    LET n == Width(old)
    IN  IF i >= n THEN [observations |-> obs, outcomes |-> ones]
        ELSE
            LET left    == old[(i + n - 1) % n]
                center  == old[i]
                right   == old[(i + 1) % n]
                nb      == NeighborhoodIndex(left, center, right)
                obs1    == [obs EXCEPT ![nb] = @ + 1]
                outcome == IF NoiseFlips(seed, i, obs1[nb], level)
                           THEN ~new[i] ELSE new[i]
                ones1   == IF outcome THEN [ones EXCEPT ![nb] = @ + 1] ELSE ones
            IN  ObserveFrom(i + 1, old, new, seed, level, obs1, ones1)

\* faulty variant of InferredBit: a probability of exactly 0.5 counts as 1
InferredBit_TieIsOne(count, ones) ==
    IF count > 0 THEN (IF 2 * ones >= count THEN 1 ELSE 0) ELSE 1

\* p = if count > 0 { ones / count } else { 0.5 }; if p > 0.5 { 1 } else { 0 }
InferredBit(count, ones) ==
    IF count > 0 THEN (IF 2 * ones > count THEN 1 ELSE 0) ELSE 0

\* `for i in 0..8 { if inferred_bit == 1 { inferred_rule |= 1 << i } }`
RECURSIVE VoteFrom(_, _, _)
VoteFrom(i, obs, ones) ==
    IF i >= 8 THEN 0
    ELSE InferredBit(obs[i], ones[i]) * (2^i) + VoteFrom(i + 1, obs, ones)

\* format!("{}{}{}", (i >> 2) & 1, (i >> 1) & 1, i & 1)
Pattern(i) ==
    LET D(b) == IF b = 1 THEN "1" ELSE "0"
    IN  D((i \div 4) % 2) \o D((i \div 2) % 2) \o D(i % 2)

\* one row of the "Neighborhood observations" table
VoteRow(i, r, obs, ones) ==
    [pattern |-> Pattern(i), count |-> obs[i], ones |-> ones[i],
     inferred_bit |-> InferredBit(obs[i], ones[i]),
     true_bit |-> (r \div (2^i)) % 2]

\* the table and the three lines closing it
VoteReport(r, obs, ones) ==
    [i \in 1..8 |-> VoteRow(i - 1, r, obs, ones)]
    \o <<[inferred |-> VoteFrom(0, obs, ones), true |-> r,
          match |-> IF VoteFrom(0, obs, ones) = r THEN "EXACT" ELSE "MISMATCH"]>>

\* --infer up to the trial loop
InitInfer ==
    /\ rule \in Rules
    /\ grid_width \in 1..MaxSampleWidth
    /\ generations \in 0..MaxSampleGens
    /\ noise \in NoiseLevels
    /\ observations = ZeroCounts
    /\ outcomes = ZeroCounts
    /\ inferred_rule = 0
    /\ trial = 0
    /\ out = <<>>
    /\ cells = AllFalse(0)
    /\ start = AllFalse(0)
    /\ gen = 0
    /\ pc = "trial"
    /\ CycleUnused
    /\ RadiusUnused
    /\ DependencyUnused
    /\ AnalysesIdle

\* a trial begins: the seeded cells and Automaton::from_cells
InferTrial ==
    /\ pc = "trial"
    /\ trial < NumTrials
    /\ cells' = InitialCells(Seed(trial), grid_width)
    /\ start' = cells'
    /\ gen' = 0
    /\ pc' = "observe"
    /\ UNCHANGED <<rule, grid_width, generations, trial, out>>
    /\ UNCHANGED <<inferVars, radiusVars, dep_counts, cycleData, analysisVars>>

\* one generation of a trial: ca.step() and the observation of all n cells
InferObserve ==
    /\ pc = "observe"
    /\ gen < generations
    /\ LET new == StepCells(cells, rule)
           got == ObserveFrom(0, cells, new, Seed(trial), noise,
                              observations, outcomes)
       IN  /\ cells' = new
           /\ observations' = got.observations
           /\ outcomes' = got.outcomes
    /\ gen' = gen + 1
    /\ UNCHANGED <<rule, start, pc, grid_width, generations, trial, out>>
    /\ UNCHANGED <<noise, inferred_rule, radiusVars, dep_counts, cycleData, analysisVars>>

\* the generations of a trial are over: next trial
InferTrialEnd ==
    /\ pc = "observe"
    /\ gen >= generations
    /\ trial' = trial + 1
    /\ pc' = "trial"
    /\ UNCHANGED <<cells, rule, start, gen, grid_width, generations, out>>
    /\ UNCHANGED <<inferVars, radiusVars, dep_counts, cycleData, analysisVars>>

\* the trials are over: majority vote for each neighbourhood, and the report
InferVote ==
    /\ pc = "trial"
    /\ trial >= NumTrials
    /\ inferred_rule' = VoteFrom(0, observations, outcomes)
    /\ out' = out \o VoteReport(rule, observations, outcomes)
    /\ pc' = "done"
    /\ UNCHANGED <<cells, rule, start, gen, grid_width, generations, trial>>
    /\ UNCHANGED <<noise, observations, outcomes, radiusVars, dep_counts, cycleData, analysisVars>>

NextInfer == InferTrial \/ InferObserve \/ InferTrialEnd \/ InferVote

SpecInfer == InitInfer /\ [][NextInfer]_vars

----------------------------------------------------------------------------
(* main, --radius, and the body of `for rule in 0..=255` of --radius-survey *)

\* let num_trials = 5 of --radius-survey
SurveyTrials == 5

\* let max_radius: usize = 2 of --radius-survey
SurveyMaxRadius == 2

\* num_trials of the running mode
NumTrialsOf(m) == IF m = "survey" THEN SurveyTrials ELSE NumTrials

\* `for _ in 0..generations { before; ca.step(); after; push((before, after)) }`
\* from cells c, g generations to go
RECURSIVE TrialTransitions(_, _, _)
TrialTransitions(c, r, g) ==
    IF g = 0 THEN <<>>
    ELSE <<<<c, StepCells(c, r)>>>> \o TrialTransitions(StepCells(c, r), r, g - 1)

\* 2^64 mod n, usize being 64 bits wide
Pow64Mod(n) ==
    LET a == (2^16) % n
        b == (a * a) % n
    IN  (b * b) % n

\* i + n - r is below 0: the subtraction overflows usize
WindowUnderflows(i, n, rr) == i + n < rr

\* faulty variant of WindowIndex: the window starts at cell i, not at i - r
WindowIndex_FromCell(i, n, rr, j) == (i + j) % n

\* faulty variant of WindowIndex: r is added instead of subtracted
WindowIndex_Plus(i, n, rr, j) == (i + n + rr + j) % n

\* (i + n - r + j) % n in usize arithmetic that wraps modulo 2^64 (a build
\* without overflow checks); without an underflow this is the plain value
WindowIndex(i, n, rr, j) ==
    LET v == i + n - rr + j
    IN  IF v >= 0 THEN v % n ELSE (Pow64Mod(n) + (v % n)) % n

\* the window of radius r around cell i: (0..window_size).map(|j| before[idx])
Window(before, i, rr) ==
    [j \in 1..(2 * rr + 1) |-> before[WindowIndex(i, Width(before), rr, j - 1)]]

\* `for (before, after) in &transitions { for i in 0..n { .. } }` from
\* transition t on: the (window, output) pair of every cell, in order
RECURSIVE SamplesFrom(_, _, _)
SamplesFrom(T, rr, t) ==
    IF t > Len(T) THEN <<>>
    ELSE [k \in 1..Width(T[t][1]) |->
            <<Window(T[t][1], k - 1, rr), T[t][2][k - 1]>>]
         \o SamplesFrom(T, rr, t + 1)

\* mapping.entry(window).or_insert((0, 0)), then entry.1 += 1 for an output
\* of 1 and entry.0 += 1 for an output of 0, over the samples S: the entry of
\* a window is <<zeros, ones>>
MappingOf(S) ==
    [w \in {S[k][1] : k \in 1..Len(S)} |->
        <<Cardinality({k \in 1..Len(S) : S[k][1] = w /\ ~S[k][2]}),
          Cardinality({k \in 1..Len(S) : S[k][1] = w /\ S[k][2]})>>]

\* the HashMap `mapping` built for radius r
MappingTable(T, rr) == MappingOf(SamplesFrom(T, rr, 1))

\* faulty variant of Inconsistent: `||` in place of `&&`
Inconsistent_Or(m) == {w \in DOMAIN m : m[w][1] > 0 \/ m[w][2] > 0}

\* mapping.iter().filter(|(_, (zeros, ones))| *zeros > 0 && *ones > 0)
Inconsistent(m) == {w \in DOMAIN m : m[w][1] > 0 /\ m[w][2] > 0}

\* --radius: inconsistent.is_empty(); --radius-survey:
\* mapping.iter().all(|(_, (zeros, ones))| *zeros == 0 || *ones == 0)
Consistent(md, m) ==
    IF md = "survey"
    THEN \A w \in DOMAIN m : m[w][1] = 0 \/ m[w][2] = 0
    ELSE Inconsistent(m) = {}

\* faulty variant of ScanBreaks: the loop never breaks
ScanBreaks_Never(consistent) == FALSE

\* `if consistent { .. break; }`
ScanBreaks(consistent) == consistent

\* what the subtraction i + n - r does in the build at hand: with an
\* underflow in reach, a build with overflow checks panics and one without
\* wraps
ScanBuilds(T, rr) ==
    IF \E t \in 1..Len(T) : \E i \in 0..(Width(T[t][1]) - 1) :
            WindowUnderflows(i, Width(T[t][1]), rr)
    THEN {"panics", "wraps"}
    ELSE {"exact"}

\* the lines --radius prints for radius r
RadiusLines(rr, m) ==
    <<[line |-> "radius", r |-> rr, window_size |-> 2 * rr + 1,
       total_windows |-> Cardinality(DOMAIN m),
       inconsistent |-> Cardinality(Inconsistent(m)),
       consistent |-> Consistent("radius", m)]>>
    \o (IF Consistent("radius", m)
        THEN <<[line |-> "inferred", r |-> rr,
                verdict |-> IF rr = 1 THEN "SUCCESS"
                            ELSE IF rr < 1 THEN "INTERESTING" ELSE "NOTE"]>>
        ELSE <<>>)

\* --radius and --radius-survey up to the trial loop
InitRadius ==
    /\ rule \in Rules
    /\ mode \in {"radius", "survey"}
    /\ grid_width \in 1..MaxSampleWidth
    /\ generations \in 0..MaxSampleGens
    /\ max_radius \in (IF mode = "survey" THEN {SurveyMaxRadius} ELSE 0..MaxRadius)
    /\ transitions = <<>>
    /\ radius = 0
    /\ effective_radius = 0
    /\ trial = 0
    /\ out = <<>>
    /\ cells = AllFalse(0)
    /\ start = AllFalse(0)
    /\ gen = 0
    /\ pc = "trial"
    /\ CycleUnused
    /\ InferUnused
    /\ DependencyUnused
    /\ AnalysesIdle

\* one trial: the seeded cells, Automaton::from_cells, and `generations`
\* transitions pushed
RadiusTrial ==
    /\ pc = "trial"
    /\ trial < NumTrialsOf(mode)
    /\ LET c0 == InitialCells(Seed(trial), grid_width)
           ts == TrialTransitions(c0, rule, generations)
       IN  /\ start' = c0
           /\ cells' = IF ts = <<>> THEN c0 ELSE ts[Len(ts)][2]
           /\ transitions' = transitions \o ts
    /\ gen' = generations
    /\ trial' = trial + 1
    /\ UNCHANGED <<rule, pc, grid_width, generations, out>>
    /\ UNCHANGED <<mode, max_radius, radius, effective_radius>>
    /\ UNCHANGED <<inferVars, dep_counts, cycleData, analysisVars>>

\* the trials are over: the scan starts at r = 0 (--radius-survey:
\* effective_radius = max_radius + 1)
RadiusCollected ==
    /\ pc = "trial"
    /\ trial >= NumTrialsOf(mode)
    /\ pc' = "scan"
    /\ radius' = 0
    /\ effective_radius' = IF mode = "survey" THEN max_radius + 1 ELSE effective_radius
    /\ UNCHANGED <<cells, rule, start, gen, grid_width, generations, trial, out>>
    /\ UNCHANGED <<mode, max_radius, transitions>>
    /\ UNCHANGED <<inferVars, dep_counts, cycleData, analysisVars>>

\* one iteration of `for r in 0..=max_radius`: the table of radius r is built
\* and tested
RadiusScan ==
    /\ pc = "scan"
    /\ radius <= max_radius
    /\ \E build \in ScanBuilds(transitions, radius) :
        IF build = "panics"
        THEN /\ pc' = "panic"
             /\ UNCHANGED <<radius, effective_radius, out>>
        ELSE LET m  == MappingTable(transitions, radius)
                 ok == Consistent(mode, m)
             IN  /\ out' = IF mode = "radius" THEN out \o RadiusLines(radius, m) ELSE out
                 /\ effective_radius' =
                        IF mode = "survey" /\ ok THEN radius ELSE effective_radius
                 /\ pc' = IF ScanBreaks(ok) THEN "done" ELSE pc
                 /\ radius' = IF ScanBreaks(ok) THEN radius ELSE radius + 1
    /\ UNCHANGED <<cells, rule, start, gen, grid_width, generations, trial>>
    /\ UNCHANGED <<mode, max_radius, transitions>>
    /\ UNCHANGED <<inferVars, dep_counts, cycleData, analysisVars>>

\* `for r in 0..=max_radius` ends without a break
RadiusExhausted ==
    /\ pc = "scan"
    /\ radius > max_radius
    /\ pc' = "done"
    /\ UNCHANGED <<cells, rule, start, gen, grid_width, generations, trial, out>>
    /\ UNCHANGED <<radiusVars, inferVars, dep_counts, cycleData, analysisVars>>

NextRadius == RadiusTrial \/ RadiusCollected \/ RadiusScan \/ RadiusExhausted

SpecRadius == InitRadius /\ [][NextRadius]_vars

----------------------------------------------------------------------------
(* main, --dependency *)

\* (rule >> n) & 1
OutputBit(b, n) == (b \div (2^n)) % 2

\* faulty variant of LeftMatters: `all` in place of `any`
LeftMatters_All(b) ==
    \A cr \in 0..3 :
        LET c == (cr \div 2) % 2
            r == cr % 2
            n0 == 0 * 4 + c * 2 + r
            n1 == 1 * 4 + c * 2 + r
        IN  OutputBit(b, n0) # OutputBit(b, n1)

\* left_matters: (0..4).any over cr, with n0 and n1 differing in bit 2
LeftMatters(b) ==
    \E cr \in 0..3 :
        LET c == (cr \div 2) % 2
            r == cr % 2
            n0 == 0 * 4 + c * 2 + r
            n1 == 1 * 4 + c * 2 + r
        IN  OutputBit(b, n0) # OutputBit(b, n1)

\* center_matters: (0..4).any over lr, with n0 and n1 differing in bit 1
CenterMatters(b) ==
    \E lr \in 0..3 :
        LET l == (lr \div 2) % 2
            r == lr % 2
            n0 == l * 4 + 0 * 2 + r
            n1 == l * 4 + 1 * 2 + r
        IN  OutputBit(b, n0) # OutputBit(b, n1)

\* right_matters: (0..4).any over lc, with n0 and n1 differing in bit 0
RightMatters(b) ==
    \E lc \in 0..3 :
        LET l == (lc \div 2) % 2
            c == lc % 2
            n0 == l * 4 + c * 2 + 0
            n1 == l * 4 + c * 2 + 1
        IN  OutputBit(b, n0) # OutputBit(b, n1)

\* the key (left_matters, center_matters, right_matters)
DependencyKey(b) == <<LeftMatters(b), CenterMatters(b), RightMatters(b)>>

\* dep_counts.entry(key).or_default().push(rule)
DepPush(dc, key, b) ==
    IF key \in DOMAIN dc
    THEN [dc EXCEPT ![key] = Append(@, b)]
    ELSE [k \in DOMAIN dc \cup {key} |-> IF k = key THEN <<b>> ELSE dc[k]]

\* the array `patterns`, in its order
Patterns ==
    << <<FALSE, FALSE, FALSE, "none (constant)">>,
       <<FALSE, TRUE, FALSE, "center only">>,
       <<TRUE, FALSE, FALSE, "left only">>,
       <<FALSE, FALSE, TRUE, "right only">>,
       <<TRUE, TRUE, FALSE, "left + center">>,
       <<FALSE, TRUE, TRUE, "center + right">>,
       <<TRUE, FALSE, TRUE, "left + right (symmetric)">>,
       <<TRUE, TRUE, TRUE, "all three">> >>

\* the lines of `for ((l, c, r), name) in patterns`, from pattern k on: one
\* "<name>: <count> rules" line for every key dep_counts holds
RECURSIVE PatternLines(_, _)
PatternLines(dc, k) ==
    IF k > Len(Patterns) THEN <<>>
    ELSE (IF <<Patterns[k][1], Patterns[k][2], Patterns[k][3]>> \in DOMAIN dc
          THEN <<[line |-> "pattern", name |-> Patterns[k][4],
                  count |-> Len(dc[<<Patterns[k][1], Patterns[k][2],
                                     Patterns[k][3]>>])]>>
          ELSE <<>>)
         \o PatternLines(dc, k + 1)

\* the string f: for lr in 0..4, the character of (rule >> n0) & 1 with
\* l = (lr >> 1) & 1, r = lr & 1, n0 = (l << 2) | (0 << 1) | r
RECURSIVE FuncString(_, _)
FuncString(b, lr) ==
    IF lr > 3 THEN ""
    ELSE LET l == (lr \div 2) % 2
             r == lr % 2
             n0 == l * 4 + 0 * 2 + r
         IN  (IF OutputBit(b, n0) = 1 THEN "1" ELSE "0")
                \o FuncString(b, lr + 1)

\* `match f.as_str()`
FuncName(f) ==
    CASE f = "0000" -> "FALSE"
      [] f = "1111" -> "TRUE"
      [] f = "0001" -> "NOR"
      [] f = "0010" -> "l AND NOT r"
      [] f = "0011" -> "NOT r"
      [] f = "0100" -> "NOT l AND r"
      [] f = "0101" -> "NOT l"
      [] f = "0110" -> "XOR"
      [] f = "0111" -> "NAND"
      [] f = "1000" -> "AND"
      [] f = "1001" -> "XNOR"
      [] f = "1010" -> "l"
      [] f = "1011" -> "l OR NOT r"
      [] f = "1100" -> "r"
      [] f = "1101" -> "NOT l OR r"
      [] f = "1110" -> "OR"
      [] OTHER -> "?"

\* the key of the center-ignoring rules
LeftRight == <<TRUE, FALSE, TRUE>>

\* the "Rule .. f(l,r) = .." lines printed so far
FuncLines == {k \in 1..Len(out) : out[k].line = "func"}

\* --dependency starts with an empty dep_counts, at the first rule
InitDependency ==
    /\ rule = 0
    /\ dep_counts = <<>>
    /\ out = <<>>
    /\ pc = "classify"
    /\ cells = AllFalse(0)
    /\ start = AllFalse(0)
    /\ gen = 0
    /\ grid_width = 0
    /\ generations = 0
    /\ trial = 0
    /\ CycleUnused
    /\ InferUnused
    /\ RadiusUnused
    /\ AnalysesIdle

\* one iteration of `for rule in 0..=255u8`
DepClassify ==
    /\ pc = "classify"
    /\ dep_counts' = DepPush(dep_counts, DependencyKey(rule), rule)
    /\ IF rule = 255
       THEN pc' = "report" /\ rule' = rule
       ELSE pc' = pc /\ rule' = rule + 1
    /\ UNCHANGED <<cells, start, gen, cycleData, analysisVars, grid_width, generations,
                   trial, out, inferVars, radiusVars>>

\* the results by dependency pattern
DepReport ==
    /\ pc = "report"
    /\ out' = PatternLines(dep_counts, 1)
    /\ pc' = "name"
    /\ UNCHANGED <<cells, rule, start, gen, cycleData, analysisVars, grid_width,
                   generations, trial, inferVars, radiusVars, dep_counts>>

\* one iteration of `for &rule in rules` over the center-ignoring rules
DepName ==
    /\ pc = "name"
    /\ LeftRight \in DOMAIN dep_counts
    /\ Cardinality(FuncLines) < Len(dep_counts[LeftRight])
    /\ \E b \in {dep_counts[LeftRight][Cardinality(FuncLines) + 1]} :
        /\ rule' = b
        /\ out' = Append(out, [line |-> "func", rule |-> b,
                               f |-> FuncString(b, 0),
                               func_name |-> FuncName(FuncString(b, 0))])
    /\ UNCHANGED <<cells, start, gen, pc, cycleData, analysisVars, grid_width, generations,
                   trial, inferVars, radiusVars, dep_counts>>

\* the loop over the center-ignoring rules is over (or there are none)
DepDone ==
    /\ pc = "name"
    /\ (LeftRight \in DOMAIN dep_counts
            => Cardinality(FuncLines) = Len(dep_counts[LeftRight]))
    /\ pc' = "done"
    /\ UNCHANGED <<cells, rule, start, gen, cycleData, analysisVars, grid_width,
                   generations, trial, out, inferVars, radiusVars, dep_counts>>

NextDependency == DepClassify \/ DepReport \/ DepName \/ DepDone

SpecDependency == InitDependency /\ [][NextDependency]_vars

----------------------------------------------------------------------------
(* main, --dependency-infer *)

\* (left, center, right) of cell i: before[(i + n - 1) % n], before[i],
\* before[(i + 1) % n]
Triple(before, i) ==
    LET n == Width(before)
    IN  <<before[(i + n - 1) % n], before[i], before[(i + 1) % n]>>

\* `for (before, after) in &transitions { for i in 0..n { .. } }` from
\* transition t on: the ((left, center, right), output) pair of every cell
RECURSIVE TripleSamplesFrom(_, _)
TripleSamplesFrom(T, t) ==
    IF t > Len(T) THEN <<>>
    ELSE [m \in 1..Width(T[t][1]) |->
            <<Triple(T[t][1], m - 1), T[t][2][m - 1]>>]
         \o TripleSamplesFrom(T, t + 1)

\* the table counts: (l, c, r) -> (zeros, ones), held for the triples seen
TripleCounts(T) == MappingOf(TripleSamplesFrom(T, 1))

\* counts.get(&key).map(|(z, o)| *o > *z): <<b>> for Some(b), <<>> for None
Majority(cn, key) ==
    IF key \in DOMAIN cn THEN <<cn[key][2] > cn[key][1]>> ELSE <<>>

\* faulty variant of KeyAt: the test of the center position varies the left
\* position, as the test of the left position does
KeyAt_CenterAsLeft(p, v, a, b) ==
    IF p = 1 THEN <<v, a, b>> ELSE IF p = 2 THEN <<v, a, b>> ELSE <<a, b, v>>

\* the key with position p (1 left, 2 center, 3 right) set to v and the two
\* other positions set to a and b, in the order of the source's loops
KeyAt(p, v, a, b) ==
    IF p = 1 THEN <<v, a, b>> ELSE IF p = 2 THEN <<a, v, b>> ELSE <<a, b, v>>

\* `out_0 != out_1` for position p at the other positions (a, b)
Differs(cn, p, a, b) ==
    Majority(cn, KeyAt(p, FALSE, a, b)) # Majority(cn, KeyAt(p, TRUE, a, b))

\* the flag of position p after its two nested loops
PositionMatters(cn, p) ==
    \E a \in BOOLEAN : \E b \in BOOLEAN : Differs(cn, p, a, b)

\* the "DIFFERENT" lines of position p, in loop order, from pair q on
\* (q = 0..3 is (a, b) = (F,F), (F,T), (T,F), (T,T)), and the "does NOT
\* matter" line when there is none
RECURSIVE DifferentLines(_, _, _)
DifferentLines(cn, p, q) ==
    IF q > 3
    THEN (IF PositionMatters(cn, p) THEN <<>>
          ELSE <<[line |-> "no differences", position |-> p]>>)
    ELSE LET a == (q \div 2) = 1
             b == (q % 2) = 1
         IN  (IF Differs(cn, p, a, b)
              THEN <<[line |-> "different", position |-> p, at |-> <<a, b>>,
                      out_0 |-> Majority(cn, KeyAt(p, FALSE, a, b)),
                      out_1 |-> Majority(cn, KeyAt(p, TRUE, a, b))]>>
              ELSE <<>>)
             \o DifferentLines(cn, p, q + 1)

\* the variables --dependency-infer leaves alone
dependencyInferFrame ==
    <<cycleData, inferVars, mode, max_radius, radius, effective_radius,
      dep_counts, compressVars, entropyVars, surveyVars, class_counts>>

\* --dependency-infer up to the trial loop
InitDependencyInfer ==
    /\ rule \in Rules
    /\ grid_width \in 1..MaxSampleWidth
    /\ generations \in 0..MaxSampleGens
    /\ transitions = <<>>
    /\ trial = 0
    /\ out = <<>>
    /\ cells = AllFalse(0)
    /\ start = AllFalse(0)
    /\ gen = 0
    /\ pc = "trial"
    /\ mode = "none"
    /\ max_radius = 0
    /\ radius = 0
    /\ effective_radius = 0
    /\ CycleUnused
    /\ InferUnused
    /\ DependencyUnused
    /\ AnalysesIdle

\* one trial: the seeded cells, Automaton::from_cells, and `generations`
\* transitions pushed
DepInferTrial ==
    /\ pc = "trial"
    /\ trial < NumTrials
    /\ LET c0 == InitialCells(Seed(trial), grid_width)
           ts == TrialTransitions(c0, rule, generations)
       IN  /\ start' = c0
           /\ cells' = IF ts = <<>> THEN c0 ELSE ts[Len(ts)][2]
           /\ transitions' = transitions \o ts
    /\ gen' = generations
    /\ trial' = trial + 1
    /\ UNCHANGED <<rule, pc, grid_width, generations, out>>
    /\ UNCHANGED <<dependencyInferVars, dependencyInferFrame>>

\* the trials are over: the table counts is built
DepInferCount ==
    /\ pc = "trial"
    /\ trial >= NumTrials
    /\ counts' = TripleCounts(transitions)
    /\ pc' = "left"
    /\ UNCHANGED <<cells, rule, start, gen, grid_width, generations, trial,
                   out, transitions>>
    /\ UNCHANGED <<left_matters, center_matters, right_matters, match_result>>
    /\ UNCHANGED dependencyInferFrame

\* "Testing whether LEFT matters"
DepInferLeft ==
    /\ pc = "left"
    /\ left_matters' = PositionMatters(counts, 1)
    /\ out' = out \o DifferentLines(counts, 1, 0)
    /\ pc' = "center"
    /\ UNCHANGED <<cells, rule, start, gen, grid_width, generations, trial,
                   transitions>>
    /\ UNCHANGED <<counts, center_matters, right_matters, match_result>>
    /\ UNCHANGED dependencyInferFrame

\* "Testing whether CENTER matters"
DepInferCenter ==
    /\ pc = "center"
    /\ center_matters' = PositionMatters(counts, 2)
    /\ out' = out \o DifferentLines(counts, 2, 0)
    /\ pc' = "right"
    /\ UNCHANGED <<cells, rule, start, gen, grid_width, generations, trial,
                   transitions>>
    /\ UNCHANGED <<counts, left_matters, right_matters, match_result>>
    /\ UNCHANGED dependencyInferFrame

\* "Testing whether RIGHT matters"
DepInferRight ==
    /\ pc = "right"
    /\ right_matters' = PositionMatters(counts, 3)
    /\ out' = out \o DifferentLines(counts, 3, 0)
    /\ pc' = "compare"
    /\ UNCHANGED <<cells, rule, start, gen, grid_width, generations, trial,
                   transitions>>
    /\ UNCHANGED <<counts, left_matters, center_matters, match_result>>
    /\ UNCHANGED dependencyInferFrame

\* the summary, the ground truth (true_left, true_center, true_right are
\* computed as left_matters, center_matters, right_matters of --dependency)
\* and the match
DepInferCompare ==
    /\ pc = "compare"
    /\ match_result' = (/\ left_matters = LeftMatters(rule)
                        /\ center_matters = CenterMatters(rule)
                        /\ right_matters = RightMatters(rule))
    /\ out' = Append(out, [line |-> "match",
                           inferred |-> <<left_matters, center_matters,
                                          right_matters>>,
                           truth |-> DependencyKey(rule),
                           match |-> IF match_result' THEN "YES" ELSE "NO"])
    /\ pc' = "done"
    /\ UNCHANGED <<cells, rule, start, gen, grid_width, generations, trial,
                   transitions>>
    /\ UNCHANGED <<counts, left_matters, center_matters, right_matters>>
    /\ UNCHANGED dependencyInferFrame

NextDependencyInfer ==
    \/ DepInferTrial
    \/ DepInferCount
    \/ DepInferLeft
    \/ DepInferCenter
    \/ DepInferRight
    \/ DepInferCompare

SpecDependencyInfer == InitDependencyInfer /\ [][NextDependencyInfer]_vars

----------------------------------------------------------------------------
(* compression_ratio *)

\* faulty variant of FlushCell: the cell is stored least significant bit first
FlushCell_LsbFirst(cell, st) ==
    LET byte == IF cell THEN st.byte + 2^(st.pos) ELSE st.byte
        pos  == st.pos + 1
    IN  IF pos = 8
        THEN [byte |-> 0, pos |-> 0, bytes |-> Append(st.bytes, byte)]
        ELSE [byte |-> byte, pos |-> pos, bytes |-> st.bytes]

\* the closure flush_cell on st = (current_byte, bit_pos, raw_bytes): bit
\* 7 - pos is clear before `*byte |= 1 << (7 - *pos)`, so the or adds it
FlushCell(cell, st) ==
    LET byte == IF cell THEN st.byte + 2^(7 - st.pos) ELSE st.byte
        pos  == st.pos + 1
    IN  IF pos = 8
        THEN [byte |-> 0, pos |-> 0, bytes |-> Append(st.bytes, byte)]
        ELSE [byte |-> byte, pos |-> pos, bytes |-> st.bytes]

\* `for &cell in &ca.cells { flush_cell(..) }` from cell i on
RECURSIVE FlushRow(_, _, _)
FlushRow(c, i, st) ==
    IF i >= Width(c) THEN st ELSE FlushRow(c, i + 1, FlushCell(c[i], st))

\* the byte lengths the deflate encoder, a library outside this repository,
\* may return for the bytes: at least the 2 bytes of an empty stream and at
\* most the input with the 5 bytes of a stored block's header
DeflateLengths(bytes) == 2..(Len(bytes) + 5)

\* the variables compression_ratio leaves alone
compressFrame ==
    <<start, cycleData, trial, out, inferVars, radiusVars, dep_counts,
      dependencyInferVars, entropyVars, surveyVars, class_counts>>

\* compression_ratio(rule, width, generations) up to the first row
InitCompress ==
    /\ rule \in Rules
    /\ grid_width \in 1..MaxPackWidth
    /\ generations \in 0..MaxPackGens
    /\ cells = New(grid_width)
    /\ start = cells
    /\ gen = 0
    /\ pc = "first"
    /\ trial = 0
    /\ out = <<>>
    /\ CycleUnused
    /\ InferUnused
    /\ RadiusUnused
    /\ DependencyUnused
    /\ AnalysesIdle

\* "First generation"
CompressFirst ==
    /\ pc = "first"
    /\ \E st \in {FlushRow(cells, 0, [byte |-> current_byte, pos |-> bit_pos,
                                      bytes |-> raw_bytes])} :
        /\ current_byte' = st.byte
        /\ bit_pos' = st.pos
        /\ raw_bytes' = st.bytes
    /\ pc' = "rows"
    /\ UNCHANGED <<cells, rule, gen, grid_width, generations, compressed,
                   raw_bits, compressed_bits, compressFrame>>

\* one iteration of `for _ in 0..generations`: ca.step() and the row
CompressRow ==
    /\ pc = "rows"
    /\ gen < generations
    /\ cells' = StepCells(cells, rule)
    /\ gen' = gen + 1
    /\ \E st \in {FlushRow(cells', 0, [byte |-> current_byte, pos |-> bit_pos,
                                       bytes |-> raw_bytes])} :
        /\ current_byte' = st.byte
        /\ bit_pos' = st.pos
        /\ raw_bytes' = st.bytes
    /\ UNCHANGED <<rule, pc, grid_width, generations, compressed, raw_bits,
                   compressed_bits, compressFrame>>

\* "Flush remaining bits"
CompressFlush ==
    /\ pc = "rows"
    /\ gen >= generations
    /\ raw_bytes' = IF bit_pos > 0 THEN Append(raw_bytes, current_byte)
                    ELSE raw_bytes
    /\ pc' = "deflate"
    /\ UNCHANGED <<cells, rule, gen, grid_width, generations, current_byte,
                   bit_pos, compressed, raw_bits, compressed_bits,
                   compressFrame>>

\* "Compress with deflate", and the returned raw_bits and compressed_bits
\* (total_cells = width * (generations + 1))
CompressDeflate ==
    /\ pc = "deflate"
    /\ \E len \in DeflateLengths(raw_bytes) :
        /\ compressed' = len
        /\ compressed_bits' = len * 8
    /\ raw_bits' = grid_width * (generations + 1)
    /\ pc' = "done"
    /\ UNCHANGED <<cells, rule, gen, grid_width, generations, raw_bytes,
                   current_byte, bit_pos, compressFrame>>

NextCompress == CompressFirst \/ CompressRow \/ CompressFlush \/ CompressDeflate

SpecCompress == InitCompress /\ [][NextCompress]_vars

----------------------------------------------------------------------------
(* Automaton::block_entropy *)

\* faulty variant of BlockPattern: the first cell of the window is the least
\* significant bit
RECURSIVE BlockPattern_LsbFirst(_, _, _, _)
BlockPattern_LsbFirst(c, i, kk, j) ==
    IF j >= kk THEN 0
    ELSE (IF c[(i + j) % Width(c)] THEN 2^j ELSE 0)
         + BlockPattern_LsbFirst(c, i, kk, j + 1)

\* `for j in 0..k { if self.cells[(i + j) % n] { pattern |= 1 << (k - 1 - j) } }`
\* from j on: the bits are distinct, so the or is a sum
RECURSIVE BlockPattern(_, _, _, _)
BlockPattern(c, i, kk, j) ==
    IF j >= kk THEN 0
    ELSE (IF c[(i + j) % Width(c)] THEN 2^(kk - 1 - j) ELSE 0)
         + BlockPattern(c, i, kk, j + 1)

\* faulty variant of EntropyTerm: the term is added instead of subtracted
EntropyTerm_Added(e, count, n) ==
    IF count > 0 THEN <<e[1] * (count^count), e[2] * (n^count)>> ELSE e

\* `if count > 0 { let p = count / total; entropy -= p * p.log2() }` on the
\* real numbers, with the entropy H kept as <<a, b>>, 2^(n * H) = a / b:
\* subtracting p * log2(p) multiplies 2^(n * H) by (n / count)^count
EntropyTerm(e, count, n) ==
    IF count > 0 THEN <<e[1] * (n^count), e[2] * (count^count)>> ELSE e

\* `for &count in &counts { .. }` from bucket b on
RECURSIVE EntropySumFrom(_, _, _, _)
EntropySumFrom(cn, b, n, e) ==
    IF b \notin DOMAIN cn THEN e
    ELSE EntropySumFrom(cn, b + 1, n, EntropyTerm(e, cn[b], n))

\* the variables block_entropy leaves alone
entropyFrame ==
    <<cells, rule, start, gen, cycleData, grid_width, generations, trial,
      out, inferVars, radiusVars, dep_counts, left_matters, center_matters,
      right_matters, match_result, compressVars, surveyVars, class_counts>>

\* block_entropy(k) is called on an automaton made by Automaton::from_cells
InitEntropy ==
    /\ \E n \in 0..MaxEntropyWidth : cells \in [0..(n - 1) -> BOOLEAN]
    /\ rule = 110
    /\ start = cells
    /\ gen = 0
    /\ block_k \in 0..(MaxEntropyWidth + 1)
    /\ block_i = 0
    /\ entropy = <<1, 1>>
    /\ counts = <<>>
    /\ pc = "check"
    /\ grid_width = 0
    /\ generations = 0
    /\ trial = 0
    /\ out = <<>>
    /\ CycleUnused
    /\ InferUnused
    /\ RadiusUnused
    /\ DependencyUnused
    /\ DependencyInferUnused
    /\ CompressUnused
    /\ SurveyUnused
    /\ AnalyzeUnused

\* `if k == 0 || k > self.width() { return 0.0; }`
EntropyReturnZero ==
    /\ pc = "check"
    /\ (block_k = 0 \/ block_k > Width(cells))
    /\ entropy' = <<1, 1>>
    /\ pc' = "done"
    /\ UNCHANGED <<counts, block_k, block_i, entropyFrame>>

\* `let mut counts = vec![0usize; 1 << k]`
EntropyAlloc ==
    /\ pc = "check"
    /\ ~(block_k = 0 \/ block_k > Width(cells))
    /\ counts' = [b \in 0..(2^block_k - 1) |-> 0]
    /\ block_i' = 0
    /\ pc' = "tabulate"
    /\ UNCHANGED <<block_k, entropy, entropyFrame>>

\* one iteration of `for i in 0..n`
EntropyWindow ==
    /\ pc = "tabulate"
    /\ block_i < Width(cells)
    /\ counts' = [counts EXCEPT ![BlockPattern(cells, block_i, block_k, 0)] = @ + 1]
    /\ block_i' = block_i + 1
    /\ UNCHANGED <<pc, block_k, entropy, entropyFrame>>

\* the Shannon entropy of the counts, returned
EntropySum ==
    /\ pc = "tabulate"
    /\ block_i >= Width(cells)
    /\ entropy' = EntropySumFrom(counts, 0, Width(cells), <<1, 1>>)
    /\ pc' = "done"
    /\ UNCHANGED <<counts, block_k, block_i, entropyFrame>>

NextEntropy == EntropyReturnZero \/ EntropyAlloc \/ EntropyWindow \/ EntropySum

SpecEntropy == InitEntropy /\ [][NextEntropy]_vars

----------------------------------------------------------------------------
(* main, --radius-survey: all 256 rules, the tallies and the analysis *)

\* `for trial in 0..num_trials { .. }` of one rule b, from trial t on
RECURSIVE SurveyTransitions(_, _, _, _)
SurveyTransitions(b, w, g, t) ==
    IF t >= SurveyTrials THEN <<>>
    ELSE TrialTransitions(InitialCells(Seed(t), w), b, g)
         \o SurveyTransitions(b, w, g, t + 1)

\* "Find minimal consistent radius", from radius rr on: the values
\* effective_radius may end with, -1 standing for a panic of the window
\* index in a build with overflow checks
RECURSIVE SurveyOutcomes(_, _, _)
SurveyOutcomes(T, rr, max) ==
    IF rr > max THEN {max + 1}
    ELSE UNION {IF build = "panics" THEN {-1}
                ELSE IF ScanBreaks(Consistent("survey", MappingTable(T, rr)))
                     THEN {rr}
                     ELSE SurveyOutcomes(T, rr + 1, max)
                : build \in ScanBuilds(T, rr)}

\* "Categorize": the index of radius_counts that is incremented
Category(eff) == IF eff = 0 THEN 0 ELSE IF eff = 1 THEN 1 ELSE 2

\* faulty variant of CenterOf: the right bit is taken for the center
CenterOf_Right(nb) == nb % 2

\* (neighborhood >> 1) & 1
CenterOf(nb) == (nb \div 2) % 2

\* center_0_outputs (cv = 0) and center_1_outputs (cv = 1) of rule b, from
\* neighbourhood nb on
RECURSIVE CenterOutputs(_, _, _)
CenterOutputs(b, cv, nb) ==
    IF nb > 7 THEN <<>>
    ELSE (IF CenterOf(nb) = cv THEN <<OutputBit(b, nb)>> ELSE <<>>)
         \o CenterOutputs(b, cv, nb + 1)

\* f_of_0 and f_of_1: "0", "1" or "?"
FOf(outputs) ==
    IF \A x \in 1..Len(outputs) : outputs[x] = 0 THEN "0"
    ELSE IF \A x \in 1..Len(outputs) : outputs[x] = 1 THEN "1"
    ELSE "?"

\* the name printed for (f_of_0, f_of_1)
CenterFunctionName(f0, f1) ==
    IF f0 = "0" /\ f1 = "0" THEN "constant 0"
    ELSE IF f0 = "1" /\ f1 = "1" THEN "constant 1"
    ELSE IF f0 = "0" /\ f1 = "1" THEN "identity"
    ELSE "NOT"

\* `if f_of_0 != "?" && f_of_1 != "?"` for rule b
HasCenterFunction(b) ==
    /\ FOf(CenterOutputs(b, 0, 0)) # "?"
    /\ FOf(CenterOutputs(b, 1, 0)) # "?"

\* the line "Rule b: f(0)=.., f(1)=.. (name)"
AnalysisLine(b) ==
    [line |-> "analysis", rule |-> b,
     f_of_0 |-> FOf(CenterOutputs(b, 0, 0)),
     f_of_1 |-> FOf(CenterOutputs(b, 1, 0)),
     name |-> CenterFunctionName(FOf(CenterOutputs(b, 0, 0)),
                                 FOf(CenterOutputs(b, 1, 0)))]

\* `for &rule in &radius_0_rules { .. }`: a line for each rule that has a
\* function of the center, in the order of the list
AnalysisLines(rules) ==
    [x \in 1..Len(SelectSeq(rules, HasCenterFunction)) |->
        AnalysisLine(SelectSeq(rules, HasCenterFunction)[x])]

\* the variables --radius-survey leaves alone
surveyFrame ==
    <<cycleData, inferVars, dep_counts, dependencyInferVars, compressVars,
      entropyVars, class_counts>>

\* --radius-survey up to `for rule in 0..=255u8`
InitSurvey ==
    /\ rule = 0
    /\ grid_width \in 1..MaxSurveyWidth
    /\ generations \in 0..MaxSurveyGens
    /\ mode = "survey"
    /\ max_radius = SurveyMaxRadius
    /\ transitions = <<>>
    /\ radius = 0
    /\ effective_radius = 0
    /\ SurveyUnused
    /\ trial = 0
    /\ out = <<>>
    /\ cells = AllFalse(0)
    /\ start = AllFalse(0)
    /\ gen = 0
    /\ pc = "rules"
    /\ CycleUnused
    /\ InferUnused
    /\ DependencyUnused
    /\ counts = <<>>
    /\ DependencyInferUnused
    /\ CompressUnused
    /\ EntropyUnused
    /\ AnalyzeUnused

\* one iteration of `for rule in 0..=255u8`: the observations, the scan and
\* the tally
SurveyRule ==
    /\ pc = "rules"
    /\ transitions' = SurveyTransitions(rule, grid_width, generations, 0)
    /\ trial' = SurveyTrials
    /\ \E eff \in SurveyOutcomes(transitions', 0, max_radius) :
        IF eff = -1
        THEN /\ pc' = "panic"
             /\ UNCHANGED <<rule, radius, effective_radius, surveyVars>>
        ELSE /\ effective_radius' = eff
             /\ radius' = IF eff > max_radius THEN max_radius ELSE eff
             /\ radius_counts' = [radius_counts EXCEPT ![Category(eff)] = @ + 1]
             /\ radius_0_rules' = IF eff = 0 THEN Append(radius_0_rules, rule)
                                  ELSE radius_0_rules
             /\ radius_gt1_rules' = IF eff > 1 THEN Append(radius_gt1_rules, rule)
                                    ELSE radius_gt1_rules
             /\ IF rule = 255
                THEN pc' = "report" /\ rule' = rule
                ELSE pc' = pc /\ rule' = rule + 1
    /\ UNCHANGED <<cells, start, gen, grid_width, generations, out, mode,
                   max_radius, surveyFrame>>

\* "Results:" and the two lists
SurveyReport ==
    /\ pc = "report"
    /\ out' = <<[line |-> "results", radius_0 |-> radius_counts[0],
                 radius_1 |-> radius_counts[1], radius_gt1 |-> radius_counts[2]],
                [line |-> "radius 0 rules", rules |-> radius_0_rules]>>
              \o (IF radius_gt1_rules # <<>>
                  THEN <<[line |-> "radius >1 rules", rules |-> radius_gt1_rules]>>
                  ELSE <<>>)
    /\ pc' = "analysis"
    /\ UNCHANGED <<cells, rule, start, gen, grid_width, generations, trial,
                   radiusVars, surveyVars, surveyFrame>>

\* "Analysis of radius-0 rules"
SurveyAnalysis ==
    /\ pc = "analysis"
    /\ out' = out \o AnalysisLines(radius_0_rules)
    /\ pc' = "done"
    /\ UNCHANGED <<cells, rule, start, gen, grid_width, generations, trial,
                   radiusVars, surveyVars, surveyFrame>>

NextSurvey == SurveyRule \/ SurveyReport \/ SurveyAnalysis

SpecSurvey == InitSurvey /\ [][NextSurvey]_vars

----------------------------------------------------------------------------
(* main, --analyze *)

\* the loop of find_cycle from iteration k on, with the automaton at c, the
\* set seen at s and the history at h: the CycleAnalysis returned
RECURSIVE FindCycleFrom(_, _, _, _, _, _)
FindCycleFrom(c, r, k, max, s, h) ==
    IF ~LoopContinues(k, max) THEN UnresolvedResult(max, c)
    ELSE LET next == StepCells(c, r)
         IN  IF Population(next) = 0 THEN DiedResult(k)
             ELSE IF next \in s
                  THEN RepeatResult(k, Position(h, next), next)
                  ELSE FindCycleFrom(next, r, k + 1, max, SeenInsert(s, next),
                                     Append(h, next))

\* find_cycle(rule, width, max_steps)
FindCycle(r, w, max) ==
    FindCycleFrom(New(w), r, 0, max, SeenInsert({}, New(w)), <<New(w)>>)

\* faulty variant of AnalysisClass: the period is looked at before died
AnalysisClass_PeriodFirst(a) ==
    IF a.period > 0 /\ a.period <= 10 THEN 1
    ELSE IF a.died THEN 0
    ELSE IF a.period > 10 THEN 2
    ELSE 3

\* `let class = if analysis.died { 0 } else if .. { 1 } else if .. { 2 } else { 3 }`
AnalysisClass(a) ==
    IF a.died THEN 0
    ELSE IF a.period > 0 /\ a.period <= 10 THEN 1
    ELSE IF a.period > 10 THEN 2
    ELSE 3

\* the row printed for a rule, for `!analysis.died || analysis.transient > 1`
AnalysisRow(b, a) ==
    IF ~a.died \/ a.transient > 1
    THEN <<[line |-> "rule", rule |-> b, transient |-> a.transient,
            period |-> IF a.period > 0 THEN <<a.period>> ELSE ">max",
            died |-> IF a.died THEN "yes" ELSE "no",
            density |-> a.final_density]>>
    ELSE <<>>

\* the variables --analyze leaves alone
analyzeFrame ==
    <<cells, start, gen, step, seen, history, generations, trial, inferVars,
      radiusVars, dep_counts, dependencyInferVars, compressVars, entropyVars,
      surveyVars>>

\* --analyze up to `for rule in 0..=255u8`
InitAnalyze ==
    /\ rule = 0
    /\ grid_width \in 1..MaxAnalyzeWidth
    /\ max_steps \in 0..MaxAnalyzeSteps
    /\ class_counts = [c \in 0..3 |-> 0]
    /\ out = <<>>
    /\ pc = "rules"
    /\ cells = AllFalse(0)
    /\ start = AllFalse(0)
    /\ gen = 0
    /\ step = 0
    /\ seen = {}
    /\ history = <<>>
    /\ result = NoResult
    /\ generations = 0
    /\ trial = 0
    /\ InferUnused
    /\ RadiusUnused
    /\ DependencyUnused
    /\ counts = <<>>
    /\ DependencyInferUnused
    /\ CompressUnused
    /\ EntropyUnused
    /\ SurveyUnused

\* one iteration of `for rule in 0..=255u8`: find_cycle, the class and the row
AnalyzeRule ==
    /\ pc = "rules"
    /\ \E analysis \in {FindCycle(rule, grid_width, max_steps)} :
        /\ result' = analysis
        /\ class_counts' =
            [class_counts EXCEPT ![AnalysisClass(analysis)] = @ + 1]
        /\ out' = out \o AnalysisRow(rule, analysis)
    /\ IF rule = 255
       THEN pc' = "summary" /\ rule' = rule
       ELSE pc' = pc /\ rule' = rule + 1
    /\ UNCHANGED <<grid_width, max_steps, counts, analyzeFrame>>

\* "Summary:"
AnalyzeSummary ==
    /\ pc = "summary"
    /\ out' = Append(out, [line |-> "summary",
                           dies |-> class_counts[0],
                           short_cycle |-> class_counts[1],
                           long_cycle |-> class_counts[2],
                           no_cycle |-> class_counts[3]])
    /\ pc' = "done"
    /\ UNCHANGED <<rule, result, grid_width, max_steps, class_counts, counts,
                   analyzeFrame>>

NextAnalyze == AnalyzeRule \/ AnalyzeSummary

SpecAnalyze == InitAnalyze /\ [][NextAnalyze]_vars

----------------------------------------------------------------------------
(* Definitions used to state the properties *)

\* the binary expansion of each rule byte: RuleBits[r][k] is bit number k
RuleBits ==
    [r \in Rules |->
        CHOOSE b \in [0..7 -> {0, 1}] :
            r = b[0] + 2 * b[1] + 4 * b[2] + 8 * b[3]
                + 16 * b[4] + 32 * b[5] + 64 * b[6] + 128 * b[7]]

\* generations 0..k of the orbit of c under rule r, generation g at index g + 1
RECURSIVE OrbitFrom(_, _, _)
OrbitFrom(c, r, k) ==
    IF k = 0 THEN <<c>> ELSE <<c>> \o OrbitFrom(StepCells(c, r), r, k - 1)

\* in an orbit o: generation m is all-dead
DeadAt(o, m) == \A i \in DOMAIN o[m + 1] : ~o[m + 1][i]

\* in an orbit o: generation m equals an earlier generation
RepeatsAt(o, m) == \E j \in 0..(m - 1) : o[j + 1] = o[m + 1]

\* in an orbit o: generation d is all-dead and no generation 1..d-1 is
\* all-dead or equal to an earlier one
FirstDeadAt(o, d) ==
    /\ DeadAt(o, d)
    /\ \A m \in 1..(d - 1) : ~DeadAt(o, m) /\ ~RepeatsAt(o, m)

\* the cells of the width-5 wrap-around case, [true, false, false, false, false]
WrapCells == [i \in 0..4 |-> i = 0]

----------------------------------------------------------------------------
(* Properties of Automaton, checked under Spec *)

\* C1: a step sets every cell i to bit number 4*s[(i-1) mod n] + 2*s[i] +
\* s[(i+1) mod n] of the rule byte, s being the complete state before the
\* step; cell 0 reads cell n-1 on its left and cell n-1 reads cell 0 on its
\* right.
C1_StepOnRing ==
    [][gen' = gen + 1 =>
        LET n == Width(cells)
        IN  /\ DOMAIN cells' = 0..(n - 1)
            /\ \A i \in 0..(n - 1) :
                cells'[i] =
                    (RuleBits[rule][4 * AsU8(cells[(i - 1) % n])
                                    + 2 * AsU8(cells[i])
                                    + AsU8(cells[(i + 1) % n])] = 1)]_vars

\* C1 witness: [1,0,0,0,0] under Rule 110 has been stepped once and cell 0,
\* whose left neighbour is cell 4, is live
C1_Witness ==
    /\ rule = 110
    /\ start = WrapCells
    /\ gen = 1
    /\ cells[0]

\* C7: the number of cells never changes
C7_WidthConstant == Width(cells) = Width(start)

\* C7 witness: a width-5 automaton after three steps, in a state other than
\* its first
C7_Witness ==
    /\ gen >= 3
    /\ Width(start) = 5
    /\ cells # start

\* C9: under Rule 0 every state reached by one or more steps is all-dead
C9_RuleZeroDies ==
    (rule = 0 /\ gen >= 1) => (Population(cells) = 0 /\ cells = AllFalse(Width(start)))

\* C9 witness: Rule 0 stepped twice from the all-live state of width 5
C9_Witness ==
    /\ rule = 0
    /\ gen = 2
    /\ Width(start) = 5
    /\ Population(start) = 5
    /\ Population(cells) = 0

\* C10: Automaton::new(7, 110) has its one live cell at index 3 and its
\* generations 0..3 are displayed as "   #   ", "  ##   ", " ###   ", "## #   "
C10_Rule110Trace ==
    (rule = 110 /\ start = New(7)) =>
        /\ Population(start) = 1
        /\ start[3]
        /\ 7 \div 2 = 3
        /\ Len(Display(cells)) = 7
        /\ gen = 0 => Display(cells) = "   #   "
        /\ gen = 1 => Display(cells) = "  ##   "
        /\ gen = 2 => Display(cells) = " ###   "
        /\ gen = 3 => Display(cells) = "## #   "

\* C10 witness: generation 3 of Automaton::new(7, 110) is on display
C10_Witness ==
    /\ rule = 110
    /\ Width(start) = 7
    /\ Population(start) = 1
    /\ gen = 3
    /\ Display(cells) = "## #   "

\* C11: under Rule 90 a step sets every cell to the exclusive-or of its left
\* and right ring neighbours, whatever the cell itself holds; one step from
\* the single center seed of width 7 leaves exactly cells 2 and 4 live,
\* displayed as "  # #  "
C11_Rule90Xor ==
    [][(rule = 90 /\ gen' = gen + 1) =>
        LET n == Width(cells)
        IN  /\ \A i \in 0..(n - 1) :
                cells'[i] = (cells[(i - 1) % n] # cells[(i + 1) % n])
            /\ (cells = New(7) /\ gen = 0) =>
                /\ {i \in DOMAIN cells' : cells'[i]} = {2, 4}
                /\ Display(cells') = "  # #  "]_vars

\* C11 witness: Automaton::new(7, 90) after its first step
C11_Witness ==
    /\ rule = 90
    /\ start = New(7)
    /\ gen = 1
    /\ Display(cells) = "  # #  "

----------------------------------------------------------------------------
(* Properties of find_cycle, checked under SpecCycle *)

\* the orbit of the single-seed start state, generations 0..k
SeedOrbit(k) == OrbitFrom(start, rule, k)

\* C2: a reported non-dead repeat has transient j and period p where j + p is
\* the first generation equal to an earlier one and j is that earlier one; no
\* generation before j ever occurs again, and p is the least positive q with
\* generation j + q equal to generation j.
C2_TransientAndPeriod ==
    (pc = "done" /\ ~result.died /\ result.period > 0) =>
        LET j == result.transient
            p == result.period
            n == 2^Width(start)
        IN  \A o \in {SeedOrbit(j + p + n)} :
            /\ RepeatsAt(o, j + p)
            /\ \A m \in 1..(j + p - 1) : ~RepeatsAt(o, m)
            /\ o[j + 1] = o[j + p + 1]
            /\ \A i \in 0..(j - 1) : \A t \in (i + 1)..(i + n) : o[i + 1] # o[t + 1]
            /\ \A q \in 1..(p - 1) : o[j + q + 1] # o[j + 1]

\* C2 witness: a repeat with a transient and a period above 1
C2_Witness ==
    /\ pc = "done"
    /\ ~result.died
    /\ result.transient >= 2
    /\ result.period >= 3

\* C3: when died = true and period = 1 are reported, the all-dead state the
\* automaton is in steps to itself
C3_DeadStateIsFixed ==
    (pc = "done" /\ result.died /\ result.period = 1) =>
        StepCells(cells, rule) = cells

\* C4: a budget of 2^n + 1 steps or more always gives a nonzero period
C4_Resolved ==
    (pc = "done" /\ max_steps >= 2^Width(start) + 1) => result.period # 0

\* C4 witness: width 4 with budget 17 ended on a repeat found at the 15th step
C4_Witness ==
    /\ pc = "done"
    /\ Width(start) = 4
    /\ max_steps = 2^4 + 1
    /\ ~result.died
    /\ result.transient + result.period >= 8

\* C5: period = 0 is returned exactly when none of generations 1..max_steps
\* is all-dead or equal to an earlier generation, and then with
\* transient = max_steps and died = false
C5_UnresolvedIffNoEvent ==
    pc = "done" =>
        \A o \in {SeedOrbit(max_steps)} :
            /\ (result.period = 0) <=>
                (\A k \in 1..max_steps : ~DeadAt(o, k) /\ ~RepeatsAt(o, k))
            /\ result.period = 0 =>
                (result.transient = max_steps /\ ~result.died)

\* C5 witness: a budget of 3 steps or more ran out
C5_Witness ==
    /\ pc = "done"
    /\ result.period = 0
    /\ max_steps >= 3
    /\ gen = max_steps

\* C6: died = true is returned exactly when some generation k + 1 within the
\* budget is all-dead and no generation 1..k is all-dead or a repeat; the
\* result is then transient = k + 1, period = 1, final_density = 0
C6_DiedIffFirstDead ==
    pc = "done" =>
        \A o \in {SeedOrbit(max_steps)} :
            /\ result.died <=> (\E k \in 0..(max_steps - 1) : FirstDeadAt(o, k + 1))
            /\ \A k \in 0..(max_steps - 1) :
                FirstDeadAt(o, k + 1) =>
                    /\ result.transient = k + 1
                    /\ result.period = 1
                    /\ result.final_density.num = 0

\* C6 witness: a run that died at its third step or later
C6_Witness ==
    /\ pc = "done"
    /\ result.died
    /\ result.transient >= 3
    /\ Population(cells) = 0

\* C28: at the start of iteration k = step, history has k + 1 entries, entry
\* m is generation m of the single-seed start state, the entries are pairwise
\* distinct, none is all-dead, and seen holds exactly the entries of history;
\* a step of find_cycle never changes an entry that history already has
C28_HistoryAndSeen ==
    /\ [](\A o \in {SeedOrbit(step)} :
            /\ Len(history) = step + 1
            /\ \A m \in 0..step : history[m + 1] = o[m + 1]
            /\ \A m \in 1..Len(history) : \A q \in 1..Len(history) :
                history[m] = history[q] => m = q
            /\ \A m \in 1..Len(history) : Population(history[m]) > 0
            /\ seen = {history[m] : m \in 1..Len(history)})
    /\ [][/\ Len(history') >= Len(history)
          /\ \A m \in 1..Len(history) : history'[m] = history[m]]_vars

\* C28 witness: the fourth iteration of a run of Rule 30 at width 4 is about
\* to start, with four generations recorded
C28_Witness ==
    /\ pc = "loop"
    /\ rule = 30
    /\ Width(cells) = 4
    /\ step = 3
    /\ max_steps > 3
    /\ Len(history) = 4
    /\ Cardinality(seen) = 4

----------------------------------------------------------------------------
(* Properties of --infer, checked under SpecInfer *)

\* bit number c of the byte b
BitOf(b, c) == (b \div (2^c)) % 2

\* C12: without noise the vote gives every observed neighbourhood the bit the
\* true rule has for it and every unobserved neighbourhood 0; when all 8 are
\* observed the inferred rule is the true rule
C12_ExactRecovery ==
    (pc = "done" /\ noise = 0) =>
        /\ \A c \in 0..7 :
            /\ observations[c] >= 1 => BitOf(inferred_rule, c) = RuleBits[rule][c]
            /\ observations[c] = 0 => BitOf(inferred_rule, c) = 0
        /\ (\A c \in 0..7 : observations[c] >= 1) => inferred_rule = rule

\* C12 witness: Rule 110 recovered from samples holding all 8 neighbourhoods
C12_Witness ==
    /\ pc = "done"
    /\ noise = 0
    /\ rule = 110
    /\ \A c \in 0..7 : observations[c] >= 1
    /\ inferred_rule = 110

\* C13: every step of the training pass is fixed by (rule, width,
\* generations, noise) and the counts so far: a trial starts from cell i =
\* ((seed * (i + 1)) mod 100) < 50 with seed = trial * 12345 + 67890; a
\* generation adds to each neighbourhood's observations the number of cells
\* showing it and to its outcomes the number of those whose output, flipped
\* exactly when noise > 0 and (seed + position + running count of the
\* neighbourhood) mod 1000 < 1000 * noise, is 1; the inferred rule is the
\* majority vote of the final counts. Without noise nothing is flipped.
C13_Reproducible ==
    [][/\ (pc = "trial" /\ pc' = "observe") =>
            cells' = [i \in 0..(grid_width - 1) |->
                        (((trial * 12345 + 67890) * (i + 1)) % 100) < 50]
       /\ (pc = "observe" /\ gen' = gen + 1) =>
            LET n == Width(cells)
                seed == trial * 12345 + 67890
                Code(i) == 4 * AsU8(cells[(i - 1) % n]) + 2 * AsU8(cells[i])
                           + AsU8(cells[(i + 1) % n])
                Running(i) ==
                    observations[Code(i)]
                    + Cardinality({k \in 0..i : Code(k) = Code(i)})
                Flipped(i) ==
                    noise > 0 /\ ((seed + i + Running(i)) % 1000) < noise
            IN  /\ cells' = StepCells(cells, rule)
                /\ \A c \in 0..7 :
                    /\ observations'[c] = observations[c]
                        + Cardinality({i \in 0..(n - 1) : Code(i) = c})
                    /\ outcomes'[c] = outcomes[c]
                        + Cardinality({i \in 0..(n - 1) :
                                        Code(i) = c /\ (cells'[i] # Flipped(i))})
                    /\ noise = 0 =>
                        outcomes'[c] = outcomes[c]
                            + Cardinality({i \in 0..(n - 1) : Code(i) = c /\ cells'[i]})
       /\ pc' = "done" =>
            /\ \A c \in 0..7 :
                BitOf(inferred_rule', c) = 1 <=> 2 * outcomes[c] > observations[c]
            /\ UNCHANGED <<observations, outcomes>>
      ]_vars

\* C13 witness: a noisy run of Rule 0, whose every counted 1 is a flipped 0
C13_Witness ==
    /\ pc = "done"
    /\ rule = 0
    /\ noise = 500
    /\ \E c \in 0..7 : outcomes[c] >= 2
    /\ \E c \in 0..7 : outcomes[c] < observations[c]

----------------------------------------------------------------------------
(* Properties of the radius scans, checked under SpecRadius *)

\* the radius of the "Inferred radius" line, or -1 when none was printed
InferredRadius ==
    IF \E k \in 1..Len(out) : out[k].line = "inferred"
    THEN out[CHOOSE k \in 1..Len(out) : out[k].line = "inferred"].r
    ELSE -1

\* the cells i-r..i+r of a row, indices modulo its width
RingWindow(row, i, rr) == [d \in (0 - rr)..rr |-> row[(i + d) % Width(row)]]

\* the <<window, output>> pairs of radius rr that the transitions T show
RingSamples(T, rr) ==
    UNION {{<<RingWindow(T[t][1], i, rr), T[t][2][i]>> : i \in DOMAIN T[t][1]}
            : t \in 1..Len(T)}

\* no window of radius rr is seen in T with both output 0 and output 1
NoConflict(T, rr) ==
    \A P \in {RingSamples(T, rr)} :
        Cardinality({p[1] : p \in P}) = Cardinality(P)

\* the least radius in 0..max without a conflict, max + 1 when there is none
LeastNoConflict(T, max) ==
    IF \E rr \in 0..max : NoConflict(T, rr)
    THEN CHOOSE rr \in 0..max :
            NoConflict(T, rr) /\ \A q \in 0..(rr - 1) : ~NoConflict(T, q)
    ELSE max + 1

\* C14 as claimed: for Rule 110 --radius reports radius 1 for every width
\* >= 1, every generations >= 1 and every max_radius >= 1
C14_Rule110RadiusOne_AnyWidth ==
    (pc = "done" /\ mode = "radius" /\ rule = 110 /\ grid_width >= 1
        /\ generations >= 1 /\ max_radius >= 1)
        => InferredRadius = 1

\* C14, amended: for Rule 110 --radius reports radius 1, never 0, for every
\* width >= 2, every generations >= 1 and every max_radius >= 1
C14_Rule110RadiusOne ==
    (pc = "done" /\ mode = "radius" /\ rule = 110 /\ grid_width >= 2
        /\ generations >= 1 /\ max_radius >= 1)
        => InferredRadius = 1

\* C14 witness: Rule 110 at width 4, found inconsistent at radius 0 and
\* consistent at radius 1
C14_Witness ==
    /\ pc = "done"
    /\ mode = "radius"
    /\ rule = 110
    /\ grid_width = 4
    /\ generations = 1
    /\ max_radius = 2
    /\ Len(out) = 3
    /\ ~out[1].consistent
    /\ out[3] = [line |-> "inferred", r |-> 1, verdict |-> "SUCCESS"]

\* C15: --radius examines the radii 0, 1, 2, .. in this order; it calls
\* radius r consistent iff no window of cells i-r..i+r has been seen with
\* both outputs; the first consistent radius is reported as inferred and is
\* the last one examined. --radius-survey ends with the least such radius
\* as effective_radius, and with its loop variable on it.
C15_FirstConsistentRadius ==
    /\ mode = "radius" =>
        \A k \in 1..Len(out) :
            /\ out[k].line = "radius" =>
                /\ out[k].r = k - 1
                /\ out[k].r <= max_radius
                /\ out[k].window_size = 2 * out[k].r + 1
                /\ out[k].consistent <=> NoConflict(transitions, out[k].r)
                /\ out[k].consistent =>
                    (k + 1 = Len(out) /\ out[k + 1].line = "inferred")
                /\ ~out[k].consistent => (k = Len(out) \/ out[k + 1].line = "radius")
            /\ out[k].line = "inferred" =>
                /\ k = Len(out)
                /\ k >= 2
                /\ out[k - 1].line = "radius"
                /\ out[k - 1].consistent
                /\ out[k].r = out[k - 1].r
                /\ out[k].r = LeastNoConflict(transitions, max_radius)
                /\ radius = out[k].r
                /\ pc = "done"
    /\ (mode = "survey" /\ pc = "done") =>
        /\ effective_radius = LeastNoConflict(transitions, max_radius)
        /\ radius = effective_radius

\* C15 witness: --radius found radius 0 inconsistent, radius 1 consistent and
\* stopped there although max_radius is 2
C15_Witness ==
    /\ pc = "done"
    /\ mode = "radius"
    /\ max_radius = 2
    /\ radius = 1
    /\ Len(out) = 3
    /\ out[1].line = "radius" /\ ~out[1].consistent
    /\ out[2].line = "radius" /\ out[2].consistent
    /\ out[3].line = "inferred"

\* C16: on the sampled transitions, a consistent table at radius r makes the
\* table at every larger radius consistent
C16_ConsistencyMonotone ==
    (pc = "scan" /\ radius = 0) =>
        \A r1 \in 0..MaxRadius : \A r2 \in (r1 + 1)..(MaxRadius + 1) :
            Consistent(mode, MappingTable(transitions, r1))
                => Consistent(mode, MappingTable(transitions, r2))

\* C16 witness: samples whose tables are consistent at radius 0 and at
\* radius 1, taken from a rule other than the constant ones
C16_Witness ==
    /\ pc = "scan"
    /\ radius = 0
    /\ rule = 204
    /\ grid_width = 4
    /\ Len(transitions) >= 10
    /\ Consistent(mode, MappingTable(transitions, 0))
    /\ Consistent(mode, MappingTable(transitions, 1))

\* C17: a scan that finds no consistent radius in 0..max_radius says so:
\* --radius prints an inferred radius or a not-found line, and
\* --radius-survey ends with effective_radius = max_radius + 1, a value that
\* is no radius of 0..max_radius
C17_NotFoundReported ==
    pc = "done" =>
        /\ mode = "radius" =>
            \E k \in 1..Len(out) : out[k].line \in {"inferred", "not found"}
        /\ mode = "survey" =>
            (effective_radius = max_radius + 1
                <=> \A rr \in 0..max_radius : ~NoConflict(transitions, rr))

----------------------------------------------------------------------------
(* Properties of --dependency, checked under SpecDependency *)

\* the output of rule b on the neighbourhood (l, c, r), as Automaton::step
\* looks it up
RuleOutput(b, l, c, r) == RuleLookup(b, NeighborhoodIndex(l, c, r))

\* the two-input function that the name denotes, as a truth table
NamedFunction ==
    [name \in {"AND", "OR", "XOR", "NAND", "NOR", "XNOR", "l AND NOT r",
               "NOT l AND r", "l OR NOT r", "NOT l OR r", "l", "r", "NOT l",
               "NOT r", "FALSE", "TRUE"} |->
        [l \in BOOLEAN, r \in BOOLEAN |->
            CASE name = "AND" -> l /\ r
              [] name = "OR" -> l \/ r
              [] name = "XOR" -> l # r
              [] name = "NAND" -> ~(l /\ r)
              [] name = "NOR" -> ~(l \/ r)
              [] name = "XNOR" -> l = r
              [] name = "l AND NOT r" -> l /\ ~r
              [] name = "NOT l AND r" -> ~l /\ r
              [] name = "l OR NOT r" -> l \/ ~r
              [] name = "NOT l OR r" -> ~l \/ r
              [] name = "l" -> l
              [] name = "r" -> r
              [] name = "NOT l" -> ~l
              [] name = "NOT r" -> ~r
              [] name = "FALSE" -> FALSE
              [] name = "TRUE" -> TRUE]]

\* C19: every center-ignoring rule is printed with the name of the function
\* of (l, r) it computes: for all l, c, r the rule's output on (l, c, r) is
\* the value of the named function at (l, r)
C19_NameIsFunction ==
    \A k \in FuncLines :
        /\ out[k].func_name \in DOMAIN NamedFunction
        /\ \A l \in BOOLEAN : \A c \in BOOLEAN : \A r \in BOOLEAN :
            RuleOutput(out[k].rule, l, c, r)
                = NamedFunction[out[k].func_name][l, r]

\* position P matters for rule b: some assignment of the other two positions
\* gives different outputs for P = 0 and P = 1
Matters(b) ==
    << \E c \in BOOLEAN : \E r \in BOOLEAN :
            RuleOutput(b, FALSE, c, r) # RuleOutput(b, TRUE, c, r),
       \E l \in BOOLEAN : \E r \in BOOLEAN :
            RuleOutput(b, l, FALSE, r) # RuleOutput(b, l, TRUE, r),
       \E l \in BOOLEAN : \E c \in BOOLEAN :
            RuleOutput(b, l, c, FALSE) # RuleOutput(b, l, c, TRUE) >>

\* the number of rules dep_counts holds under the key
ClassSize(key) == IF key \in DOMAIN dep_counts THEN Len(dep_counts[key]) ELSE 0

\* the rules classified so far
Classified == IF pc = "classify" THEN 0..(rule - 1) ELSE Rules

\* the rules dep_counts lists under the key
ClassRules(key) ==
    IF key \in DOMAIN dep_counts
    THEN {dep_counts[key][k] : k \in 1..Len(dep_counts[key])}
    ELSE {}

\* C20: each of the 8 keys lists, once each, exactly the classified rules
\* whose positions matter as the key says, so that every rule is under one
\* key only; once all 256 are classified there are 2 constant rules, 2 rules
\* for each single position, 10 for each pair and 218 that depend on all
\* three
C20_MattersClasses ==
    /\ \A key \in BOOLEAN \X BOOLEAN \X BOOLEAN :
        \A S \in {ClassRules(key)} :
            /\ S = {b \in Classified : Matters(b) = key}
            /\ Cardinality(S) = ClassSize(key)
    /\ pc # "classify" =>
        /\ ClassSize(<<FALSE, FALSE, FALSE>>) = 2
        /\ ClassSize(<<TRUE, FALSE, FALSE>>) = 2
        /\ ClassSize(<<FALSE, TRUE, FALSE>>) = 2
        /\ ClassSize(<<FALSE, FALSE, TRUE>>) = 2
        /\ ClassSize(<<TRUE, TRUE, FALSE>>) = 10
        /\ ClassSize(<<FALSE, TRUE, TRUE>>) = 10
        /\ ClassSize(<<TRUE, FALSE, TRUE>>) = 10
        /\ ClassSize(<<TRUE, TRUE, TRUE>>) = 218

\* C20 witness: all 256 rules are classified, Rule 110 under "all three" and
\* Rule 90 under "left + right"
C20_Witness ==
    /\ pc = "done"
    /\ \E k \in 1..ClassSize(<<TRUE, TRUE, TRUE>>) :
        dep_counts[<<TRUE, TRUE, TRUE>>][k] = 110
    /\ \E k \in 1..ClassSize(LeftRight) : dep_counts[LeftRight][k] = 90
    /\ \E k \in 1..Len(out) :
        out[k] = [line |-> "pattern", name |-> "all three", count |-> 218]

----------------------------------------------------------------------------
(* Properties of --dependency-infer, checked under SpecDependencyInfer *)

\* the samples show the neighbourhood (l, c, r) as some cell's (left, center,
\* right)
Observed(T, l, c, r) ==
    \E t \in 1..Len(T) : \E i \in DOMAIN T[t][1] :
        /\ T[t][1][(i - 1) % Width(T[t][1])] = l
        /\ T[t][1][i] = c
        /\ T[t][1][(i + 1) % Width(T[t][1])] = r

\* among the samples of (l, c, r), those with output 1 outnumber the others
MajorityOne(T, l, c, r) ==
    \A S \in {{<<t, i>> \in (1..Len(T)) \X (0..(MaxSampleWidth + 1)) :
                /\ i \in DOMAIN T[t][1]
                /\ T[t][1][(i - 1) % Width(T[t][1])] = l
                /\ T[t][1][i] = c
                /\ T[t][1][(i + 1) % Width(T[t][1])] = r}} :
        2 * Cardinality({x \in S : T[x[1]][2][x[2]]}) > Cardinality(S)

\* for the rest (a, b) of the neighbourhood, both values of position p are
\* observed and their majority outcomes differ
BothSeenAndDiffer(T, p, a, b) ==
    \A k0 \in {KeyAt(p, FALSE, a, b)} : \A k1 \in {KeyAt(p, TRUE, a, b)} :
        /\ Observed(T, k0[1], k0[2], k0[3])
        /\ Observed(T, k1[1], k1[2], k1[3])
        /\ MajorityOne(T, k0[1], k0[2], k0[3])
            # MajorityOne(T, k1[1], k1[2], k1[3])

\* C21: a position is marked as mattering only if for some assignment of the
\* other two positions both its neighbourhoods occur in the samples and
\* their majority outcomes differ
C21_MattersOnlyIfBothSeen ==
    pc = "done" =>
        /\ left_matters =>
            \E a \in BOOLEAN : \E b \in BOOLEAN :
                BothSeenAndDiffer(transitions, 1, a, b)
        /\ center_matters =>
            \E a \in BOOLEAN : \E b \in BOOLEAN :
                BothSeenAndDiffer(transitions, 2, a, b)
        /\ right_matters =>
            \E a \in BOOLEAN : \E b \in BOOLEAN :
                BothSeenAndDiffer(transitions, 3, a, b)

\* all 8 neighbourhoods occur in the samples
AllObserved(T) ==
    \A l \in BOOLEAN : \A c \in BOOLEAN : \A r \in BOOLEAN : Observed(T, l, c, r)

\* C22: when all 8 neighbourhoods occur in the samples, the inferred flags
\* are those of direct inspection and the match is YES
C22_AgreesWhenAllObserved ==
    (pc = "done" /\ AllObserved(transitions)) =>
        /\ <<left_matters, center_matters, right_matters>> = Matters(rule)
        /\ match_result
        /\ out[Len(out)].line = "match"
        /\ out[Len(out)].match = "YES"

\* C22 witness: Rule 90 sampled with all 8 neighbourhoods observed; left and
\* right matter, center does not
C22_Witness ==
    /\ pc = "done"
    /\ rule = 90
    /\ AllObserved(transitions)
    /\ left_matters /\ ~center_matters /\ right_matters
    /\ match_result

----------------------------------------------------------------------------
(* Properties of compression_ratio, checked under SpecCompress *)

\* C23: the rows of generations 0..generations are packed row-major, most
\* significant bit first: raw_bits = width * (generations + 1); the cell i
\* of generation g, m = g * width + i, is bit 7 - (m mod 8) of byte m div 8;
\* there are ceil(raw_bits / 8) bytes, the bits of the last byte past the
\* last cell are 0, and compressed_bits is 8 times the compressed length
C23_RowMajorMsbFirst ==
    pc = "done" =>
        \A o \in {OrbitFrom(New(grid_width), rule, generations)} :
            /\ raw_bits = grid_width * (generations + 1)
            /\ Len(raw_bytes) = (raw_bits + 7) \div 8
            /\ \A b \in 1..Len(raw_bytes) : raw_bytes[b] \in 0..255
            /\ \A g \in 0..generations : \A i \in 0..(grid_width - 1) :
                \A m \in {g * grid_width + i} :
                    BitOf(raw_bytes[(m \div 8) + 1], 7 - (m % 8))
                        = AsU8(o[g + 1][i])
            /\ \A m \in raw_bits..(8 * Len(raw_bytes) - 1) :
                BitOf(raw_bytes[(m \div 8) + 1], 7 - (m % 8)) = 0
            /\ compressed_bits = 8 * compressed

\* C23 witness: Rule 110 at width 5 for 3 generations: 20 cells in 3 bytes,
\* the last byte half used
C23_Witness ==
    /\ pc = "done"
    /\ rule = 110
    /\ grid_width = 5
    /\ generations = 3
    /\ raw_bits = 20
    /\ Len(raw_bytes) = 3
    /\ raw_bytes[3] # 0

----------------------------------------------------------------------------
(* Properties of Automaton::block_entropy, checked under SpecEntropy *)

\* the length-kk window of c that starts at cell i, read around the ring
RingBlock(c, i, kk) == [j \in 0..(kk - 1) |-> c[(i + j) % Width(c)]]

\* the pattern whose bit kk - 1 - j is cell j of the window w
PatternOf(w, kk) ==
    CHOOSE q \in 0..(2^kk - 1) :
        \A j \in 0..(kk - 1) : BitOf(q, kk - 1 - j) = AsU8(w[j])

\* the entropy <<a, b>> is at least 0: a / b >= 1
NonNegative(e) == e[1] >= e[2]

\* the entropy <<a, b>> of a state of n cells is at most bits:
\* a / b <= 2^(n * bits); a <= n^n stays below 2^20
AtMost(e, n, bits) ==
    (e[1] + e[2] - 1) \div e[2] <= 2^(IF n * bits > 20 THEN 20 ELSE n * bits)

\* C24: block_entropy(state, k) lies in [0, k] for 1 <= k <= width, and is 0
\* when all the length-k windows of the state are the same pattern
C24_EntropyBounds ==
    (pc = "done" /\ block_k >= 1 /\ block_k <= Width(cells)) =>
        /\ NonNegative(entropy)
        /\ AtMost(entropy, Width(cells), block_k)
        /\ (\A i \in DOMAIN cells :
                RingBlock(cells, i, block_k) = RingBlock(cells, 0, block_k))
            => entropy[1] = entropy[2]

\* C24 witness: the state 0011 with k = 2 shows each of the 4 patterns once
\* and has entropy exactly 2
C24_Witness ==
    /\ pc = "done"
    /\ block_k = 2
    /\ cells = [i \in 0..3 |-> i >= 2]
    /\ entropy[1] = (2^8) * entropy[2]

\* C25: for k in 1..width, after i iterations counts[q] is the number of the
\* windows starting at 0..i-1 whose pattern (first cell most significant) is
\* q, so that the counts sum to i and at the end to width; for k = 0 or
\* k > width nothing is tabulated and the result is 0
C25_OneWindowPerPosition ==
    /\ pc \in {"tabulate", "done"} /\ block_k >= 1 /\ block_k <= Width(cells) =>
        /\ DOMAIN counts = 0..(2^block_k - 1)
        /\ \A q \in DOMAIN counts :
            counts[q] = Cardinality({i \in 0..(block_i - 1) :
                PatternOf(RingBlock(cells, i, block_k), block_k) = q})
        /\ pc = "done" => block_i = Width(cells)
    /\ (pc = "done" /\ (block_k = 0 \/ block_k > Width(cells))) =>
        /\ counts = <<>>
        /\ block_i = 0
        /\ entropy = <<1, 1>>

\* C25 witness: the three windows of the state 011 for k = 3 are tabulated,
\* two of them wrapping around
C25_Witness ==
    /\ pc = "done"
    /\ block_k = 3
    /\ cells = [i \in 0..2 |-> i >= 1]
    /\ counts[3] = 1 /\ counts[6] = 1 /\ counts[5] = 1

----------------------------------------------------------------------------
(* Properties of --radius-survey, checked under SpecSurvey *)

\* the rules tallied so far
Surveyed == IF pc = "rules" THEN 0..(rule - 1) ELSE Rules

\* the rules in the list
ListedIn(rules) == {rules[x] : x \in 1..Len(rules)}

\* C26: the window table at radius 1 of every rule's transitions is
\* consistent, every rule ends with effective radius 0 or 1, the count of
\* 'effective radius >1' stays 0 and radius_gt1_rules stays empty
C26_RadiusAtMostOne ==
    /\ pc # "panic"
    /\ NoConflict(transitions, 1)
    /\ Consistent(mode, MappingTable(transitions, 1))
    /\ effective_radius \in {0, 1}
    /\ radius_counts[2] = 0
    /\ radius_gt1_rules = <<>>
    /\ radius_counts[0] + radius_counts[1] = Cardinality(Surveyed)
    /\ pc \in {"analysis", "done"} =>
        /\ out[1].radius_gt1 = 0
        /\ \A x \in 1..Len(out) : out[x].line # "radius >1 rules"

\* C26 witness: the survey of width 5 is over, with 4 rules of radius 0 and
\* 252 of radius 1
C26_Witness ==
    /\ pc = "done"
    /\ grid_width = 5
    /\ generations = 2
    /\ radius_counts[0] = 4
    /\ radius_counts[1] = 252

\* the output of rule b is a function of the center cell alone
CenterOnly(b) ==
    \A c \in BOOLEAN :
        \A l1 \in BOOLEAN : \A r1 \in BOOLEAN :
            \A l2 \in BOOLEAN : \A r2 \in BOOLEAN :
                RuleOutput(b, l1, c, r1) = RuleOutput(b, l2, c, r2)

\* the name of the function of the center cell that rule b computes
CenterName(b) ==
    IF RuleOutput(b, FALSE, FALSE, FALSE)
    THEN (IF RuleOutput(b, TRUE, TRUE, TRUE) THEN "constant 1" ELSE "NOT")
    ELSE (IF RuleOutput(b, TRUE, TRUE, TRUE) THEN "identity" ELSE "constant 0")

\* the radius-0 analysis has a line for rule b, with the name of its function
Analysed(b) ==
    \E x \in 1..Len(out) :
        /\ out[x].line = "analysis"
        /\ out[x].rule = b
        /\ out[x].name = CenterName(b)

\* C27 as claimed: every rule in radius_0_rules has an output that depends
\* only on the center cell and is printed in the radius-0 analysis
C27_RadiusZeroIsCenterOnly ==
    /\ \A b \in ListedIn(radius_0_rules) : CenterOnly(b)
    /\ pc = "done" => \A b \in ListedIn(radius_0_rules) : Analysed(b)

\* C27, amended: every rule in radius_0_rules whose sampled transitions show
\* all 8 neighbourhoods has an output that depends only on the center cell;
\* the radius-0 analysis prints exactly the rules of radius_0_rules whose
\* output depends only on the center cell, each with the name of its function
C27_CenterOnlyWhenAllObserved ==
    /\ \A b \in ListedIn(radius_0_rules) :
        AllObserved(SurveyTransitions(b, grid_width, generations, 0))
            => CenterOnly(b)
    /\ pc = "done" =>
        /\ \A b \in ListedIn(radius_0_rules) : CenterOnly(b) <=> Analysed(b)
        /\ \A x \in 1..Len(out) :
            out[x].line = "analysis" =>
                /\ out[x].rule \in ListedIn(radius_0_rules)
                /\ Analysed(out[x].rule)

\* C27 witness: at width 3 rule 51 is listed with all 8 neighbourhoods seen
\* and printed as NOT, and rule 76 is listed though it is not center-only
C27_Witness ==
    /\ pc = "done"
    /\ grid_width = 3
    /\ generations = 2
    /\ 51 \in ListedIn(radius_0_rules)
    /\ AllObserved(SurveyTransitions(51, grid_width, generations, 0))
    /\ Analysed(51)
    /\ 76 \in ListedIn(radius_0_rules)
    /\ ~CenterOnly(76)

----------------------------------------------------------------------------
(* Properties of --analyze, checked under SpecAnalyze *)

\* in an orbit o: generation m is the first, from 1 on, that is all-dead or
\* equals an earlier one
FirstEventAt(o, m) ==
    /\ DeadAt(o, m) \/ RepeatsAt(o, m)
    /\ \A q \in 1..(m - 1) : ~DeadAt(o, q) /\ ~RepeatsAt(o, q)

\* the class of a run whose orbit of max generations is o: 0 when its first
\* event is an all-dead generation; 1 or 2 when it is a repeat of an earlier
\* generation j, with period m - j at most 10 or above 10; 3 when there is no
\* event in 1..max
OrbitClass(o, max) ==
    IF \E m \in 1..max : FirstEventAt(o, m)
    THEN LET m == CHOOSE x \in 1..max : FirstEventAt(o, x)
         IN  IF DeadAt(o, m) THEN 0
             ELSE IF m - (CHOOSE j \in 0..(m - 1) : o[j + 1] = o[m + 1]) <= 10
                  THEN 1 ELSE 2
    ELSE 3

\* the number of rules counted so far
Analyzed == IF pc = "rules" THEN rule ELSE 256

\* C29: every rule is counted in exactly one class, the class of its run:
\* died -> 0 (never 1, although its period is 1); a repeat with period 1..10
\* -> 1; a repeat with a longer period -> 2; max_steps exhausted -> 3, and
\* only then; the four counts sum to the number of rules counted, 256 at the
\* end
C29_OneClassPerRule ==
    /\ [](/\ class_counts[0] + class_counts[1] + class_counts[2]
                + class_counts[3] = Analyzed
          /\ pc = "done" =>
                out[Len(out)] = [line |-> "summary", dies |-> class_counts[0],
                                 short_cycle |-> class_counts[1],
                                 long_cycle |-> class_counts[2],
                                 no_cycle |-> class_counts[3]])
    /\ [][pc = "rules" =>
            \A cl \in {OrbitClass(OrbitFrom(New(grid_width), rule, max_steps),
                                  max_steps)} :
                /\ class_counts' = [class_counts EXCEPT ![cl] = @ + 1]
                /\ result'.died <=> cl = 0
                /\ result'.died => result'.period = 1
                /\ (~result'.died /\ result'.period = 0) <=> cl = 3
         ]_vars

\* C29 witness: --analyze with width 6 and max_steps 12 is over and each of
\* the four classes has been counted
C29_Witness ==
    /\ pc = "done"
    /\ grid_width = 6
    /\ max_steps = 12
    /\ \A c \in 0..3 : class_counts[c] > 0

====
